---- MODULE Spec2Model ----
(***************************************************************************)
(* Model of dilettantemode/imgop-vips: a Lambda handler that checks a      *)
(* secret header, parses w/h/q/url, checks the URL host against an         *)
(* allow-list, fetches the image, hands it to libvips and answers with a   *)
(* base64 body.  The repository holds three builds of the handler:         *)
(*   "main"    src/src/main.go        (strict parsing, libs allow-list)    *)
(*   "helpers" src/unnamed/part_004   (helpers package, AppEnv allow-list) *)
(*   "legacy"  src/unnamed/part_005   (no auth, defaults, 400 on empty)    *)
(* Strings that the code inspects are sequences of one-character strings;  *)
(* error texts the code only formats are sequences of text fragments.      *)
(***************************************************************************)
EXTENDS Integers, Sequences, FiniteSets, TLC

VARIABLES
    build,          \* which handler build, or which package under direct calls, the process runs
    env,            \* the process environment (os.Getenv)
    appEnv,         \* helpers.appEnv singleton: [set |-> FALSE] until GetAppEnv ran
    allowedOrigins, \* libs.allowedOrigins package variable
    exited,         \* TRUE after log.Fatal ended the process
    pc,             \* "idle" (waiting for the invocation) or "done" (answered); under
                    \* direct calls of Optimize: "fetching", "reading", "returned"
    req,            \* the APIGatewayProxyRequest of the current invocation
    resp,           \* the APIGatewayProxyResponse returned
    optLog,         \* calls of Optimize made by the invocation: params and result
    fetchLog,       \* URLs for which an HTTP GET went out on the network
    allowedCap,     \* cap(libs.allowedOrigins)
    held,           \* the slice the caller of the libs package holds
    pending,        \* the parameters of the Optimize call that waits for the network
    remote,         \* what the remote server did on the fetch of the last Optimize call
    ret,            \* the last direct call of a package function: name, arguments, result
    once,           \* helpers.once: its done flag and the goroutine that holds its mutex (0: none)
    calls,          \* each goroutine's place in its GetAppEnv call and what its last call returned
    builds,         \* the environments from which an AppEnv was built, oldest first
    resets          \* how many times ResetAppEnvForTesting ran

vars ==
    <<build, env, appEnv, allowedOrigins, exited, pc, req, resp, optLog, fetchLog,
      allowedCap, held, pending, remote, ret, once, calls, builds, resets>>

----------------------------------------------------------------------------
(* Bounds of the model *)

\* longest ALLOWED_ORIGINS environment value tried
MaxEnvLen == 1
\* longest byte string the encoder returns
MaxImgLen == 1
\* longest allow-list and longest caller slice built under direct calls
MaxListLen == 3
\* goroutines that call GetAppEnv side by side
MaxGoroutines == 2
\* most calls of ResetAppEnvForTesting
MaxResets == 1

----------------------------------------------------------------------------
(* Strings *)

Digits == <<"0", "1", "2", "3", "4", "5", "6", "7", "8", "9">>

IsDigit(c) == \E i \in 1..10 : Digits[i] = c

DigitVal(c) == (CHOOSE i \in 1..10 : Digits[i] = c) - 1

IsLetter(c) == c \in {"a", "b", "g", "s"}

IsSpace(c) == c \in {" ", "\t", "\n"}

\* all strings over alphabet A of length at most n
StringsUpTo(A, n) == UNION {[1..k -> A] : k \in 0..n}

RECURSIVE Contains(_, _)
\* slices.Contains
Contains(list, x) ==
    IF list = <<>> THEN FALSE
    ELSE IF Head(list) = x THEN TRUE
    ELSE Contains(Tail(list), x)

RECURSIVE IndexOf(_, _, _)
\* strings.Index from position i (1-based); 0 when c does not occur
IndexOf(s, c, i) ==
    IF i > Len(s) THEN 0
    ELSE IF s[i] = c THEN i
    ELSE IndexOf(s, c, i + 1)

RECURSIVE LastIndexOf(_, _, _)
\* strings.LastIndex looking down from position i; 0 when c does not occur
LastIndexOf(s, c, i) ==
    IF i < 1 THEN 0
    ELSE IF s[i] = c THEN i
    ELSE LastIndexOf(s, c, i - 1)

RECURSIVE TrimLeft(_)
TrimLeft(s) == IF s # <<>> /\ IsSpace(Head(s)) THEN TrimLeft(Tail(s)) ELSE s

RECURSIVE TrimRight(_)
TrimRight(s) ==
    IF s # <<>> /\ IsSpace(s[Len(s)]) THEN TrimRight(SubSeq(s, 1, Len(s) - 1)) ELSE s

\* strings.TrimSpace
TrimSpace(s) == TrimRight(TrimLeft(s))

RECURSIVE Split(_, _)
\* strings.Split(s, sep) for a one-character separator
Split(s, sep) ==
    LET i == IndexOf(s, sep, 1)
    IN  IF i = 0 THEN <<s>>
        ELSE <<SubSeq(s, 1, i - 1)>> \o Split(SubSeq(s, i + 1, Len(s)), sep)

RECURSIVE DigitsValue(_, _)
\* value of a run of decimal digits, acc being the value read so far
DigitsValue(s, acc) ==
    IF s = <<>> THEN acc
    ELSE DigitsValue(Tail(s), 10 * acc + DigitVal(Head(s)))

AllDigits(s) == \A i \in 1..Len(s) : IsDigit(s[i])

\* strconv.Atoi: optional sign, then one or more decimal digits and nothing else
Atoi(s) ==
    LET signed == s # <<>> /\ Head(s) \in {"+", "-"}
        body   == IF signed THEN Tail(s) ELSE s
    IN  IF body = <<>> \/ ~AllDigits(body)
        THEN [val |-> 0, ok |-> FALSE]
        ELSE [val |-> IF signed /\ Head(s) = "-"
                      THEN 0 - DigitsValue(body, 0)
                      ELSE DigitsValue(body, 0),
              ok  |-> TRUE]

RECURSIVE DigitPrefix(_)
\* the longest prefix of s made of digits
DigitPrefix(s) ==
    IF s # <<>> /\ IsDigit(Head(s)) THEN <<Head(s)>> \o DigitPrefix(Tail(s)) ELSE <<>>

\* fmt.Sscanf(s, "%d", &v): skips leading blanks, reads an optional sign and
\* the digits that follow; v keeps its old value when no integer is there
Sscanf(s, old) ==
    LET t      == TrimLeft(s)
        signed == t # <<>> /\ Head(t) \in {"+", "-"}
        body   == DigitPrefix(IF signed THEN Tail(t) ELSE t)
    IN  IF body = <<>> THEN old
        ELSE IF signed /\ Head(t) = "-" THEN 0 - DigitsValue(body, 0)
        ELSE DigitsValue(body, 0)

RECURSIVE Itoa(_)
\* decimal text of an integer (the %d verb of fmt)
Itoa(n) ==
    IF n < 0 THEN <<"-">> \o Itoa(0 - n)
    ELSE IF n < 10 THEN <<Digits[n + 1]>>
    ELSE Itoa(n \div 10) \o <<Digits[(n % 10) + 1]>>

----------------------------------------------------------------------------
(* net/url as the handlers use it.  The model alphabet: letters a b g s,   *)
(* the decimal digits, and : / @ % + and the blank.  "s" stands for the    *)
(* scheme http; "?" stands for an unescaped byte outside this alphabet.    *)

IsHex(c) == IsDigit(c) \/ c \in {"a", "b"}

\* the byte a %XX escape stands for, for the escapes of letters of the alphabet
Unhex2(h1, h2) ==
    CASE <<h1, h2>> = <<"6", "1">> -> "a"
      [] <<h1, h2>> = <<"6", "2">> -> "b"
      [] <<h1, h2>> = <<"6", "7">> -> "g"
      [] <<h1, h2>> = <<"7", "3">> -> "s"
      [] <<h1, h2>> = <<"2", "0">> -> " "
      [] OTHER -> "?"

\* every % of s is followed by two hex digits
EscapesOK(s) ==
    \A i \in 1..Len(s) :
        s[i] = "%" => (i + 2 <= Len(s) /\ IsHex(s[i + 1]) /\ IsHex(s[i + 2]))

\* the text of the first malformed escape (at most three characters)
BadEscape(s) ==
    LET i == CHOOSE j \in 1..Len(s) :
                 /\ s[j] = "%"
                 /\ ~(j + 2 <= Len(s) /\ IsHex(s[j + 1]) /\ IsHex(s[j + 2]))
                 /\ \A k \in 1..(j - 1) :
                        s[k] = "%" => (k + 2 <= Len(s) /\ IsHex(s[k + 1]) /\ IsHex(s[k + 2]))
    IN  SubSeq(s, i, IF i + 2 <= Len(s) THEN i + 2 ELSE Len(s))

RECURSIVE UnescapeFrom(_)
UnescapeFrom(s) ==
    IF s = <<>> THEN <<>>
    ELSE IF Head(s) = "%" THEN <<Unhex2(s[2], s[3])>> \o UnescapeFrom(SubSeq(s, 4, Len(s)))
    ELSE IF Head(s) = "+" THEN <<" ">> \o UnescapeFrom(Tail(s))
    ELSE <<Head(s)>> \o UnescapeFrom(Tail(s))

\* url.QueryUnescape
QueryUnescape(s) ==
    IF EscapesOK(s)
    THEN [ok |-> TRUE, val |-> UnescapeFrom(s), err |-> <<>>]
    ELSE [ok |-> FALSE, val |-> <<>>,
          err |-> <<"invalid URL escape ", "\"">> \o BadEscape(s) \o <<"\"">>]

RECURSIVE SchemeEnd(_, _)
\* url.getScheme: the position of the colon that ends the scheme, 0 when the
\* string has no scheme, -1 when it starts with a colon (missing protocol scheme)
SchemeEnd(s, i) ==
    IF i > Len(s) THEN 0
    ELSE IF IsLetter(s[i]) THEN SchemeEnd(s, i + 1)
    ELSE IF IsDigit(s[i]) \/ s[i] = "+" THEN (IF i = 1 THEN 0 ELSE SchemeEnd(s, i + 1))
    ELSE IF s[i] = ":" THEN (IF i = 1 THEN -1 ELSE i)
    ELSE 0

HasPrefix2(s, c1, c2) == Len(s) >= 2 /\ s[1] = c1 /\ s[2] = c2

\* url.validOptionalPort: empty, or a colon followed by digits only
ValidOptionalPort(p) == p = <<>> \/ (Head(p) = ":" /\ AllDigits(Tail(p)))

\* url.parseHost without brackets: a valid port after the last colon and no
\* byte that a host name must escape
ParseHostOK(h) ==
    LET i == LastIndexOf(h, ":", Len(h))
    IN  /\ (i # 0 => ValidOptionalPort(SubSeq(h, i, Len(h))))
        /\ \A k \in 1..Len(h) : h[k] \notin {" ", "%", "/", "@"}

\* url.validUserinfo
ValidUserinfo(u) == \A k \in 1..Len(u) : u[k] \notin {" ", "/", "?"}

\* url.Parse: [ok, Scheme, Host]; Host is the authority after its last @,
\* port included; it is empty when the string has no //authority part
UrlParse(raw) ==
    LET e      == SchemeEnd(raw, 1)
        scheme == IF e > 0 THEN SubSeq(raw, 1, e - 1) ELSE <<>>
        rest   == IF e > 0 THEN SubSeq(raw, e + 1, Len(raw)) ELSE raw
        bad    == [ok |-> FALSE, Scheme |-> <<>>, Host |-> <<>>]
        slash  == IndexOf(rest, "/", 1)
        seg1   == IF slash = 0 THEN rest ELSE SubSeq(rest, 1, slash - 1)
    IN  IF e = -1 THEN bad
        ELSE IF rest = <<>> \/ Head(rest) # "/"
        THEN IF scheme # <<>>
             THEN [ok |-> TRUE, Scheme |-> scheme, Host |-> <<>>]   \* opaque
             ELSE IF IndexOf(seg1, ":", 1) # 0 THEN bad
             ELSE IF ~EscapesOK(rest) THEN bad
             ELSE [ok |-> TRUE, Scheme |-> <<>>, Host |-> <<>>]
        ELSE IF HasPrefix2(rest, "/", "/")
                /\ (scheme # <<>> \/ ~(Len(rest) >= 3 /\ rest[3] = "/"))
        THEN LET after == SubSeq(rest, 3, Len(rest))
                 j     == IndexOf(after, "/", 1)
                 auth  == IF j = 0 THEN after ELSE SubSeq(after, 1, j - 1)
                 path  == IF j = 0 THEN <<>> ELSE SubSeq(after, j, Len(after))
                 at    == LastIndexOf(auth, "@", Len(auth))
                 host  == SubSeq(auth, at + 1, Len(auth))
                 user  == IF at = 0 THEN <<>> ELSE SubSeq(auth, 1, at - 1)
             IN  IF ParseHostOK(host) /\ ValidUserinfo(user) /\ EscapesOK(path)
                 THEN [ok |-> TRUE, Scheme |-> scheme, Host |-> host]
                 ELSE bad
        ELSE IF EscapesOK(rest)
             THEN [ok |-> TRUE, Scheme |-> scheme, Host |-> <<>>]
             ELSE bad

\* http.Get / client.Do reach the network only for an http(s) URL with a host;
\* any other URL ends in an error before a connection is made
Dialable(u) == u.ok /\ u.Scheme = <<"s">> /\ u.Host # <<>>

----------------------------------------------------------------------------
(* The environment and the two allow-lists *)

\* the default origin lh3.googleusercontent.com, written with one letter
DefaultOrigin == <<"g">>

DefaultMaxDim == 1800

DefaultFetchTimeout == 5

\* a MAX_WIDTH / MAX_HEIGHT / FETCH_TIMEOUT variable: its value when it is a
\* positive integer, else the default
EnvPositive(str, default) ==
    IF str # <<>> /\ Atoi(str).ok /\ Atoi(str).val > 0 THEN Atoi(str).val ELSE default

RECURSIVE TrimmedNonEmpty(_)
\* the loop body of GetAppEnv: the trimmed text of each entry that is not blank
TrimmedNonEmpty(parts) ==
    IF parts = <<>> THEN <<>>
    ELSE LET t == TrimSpace(Head(parts))
         IN  (IF t # <<>> THEN <<t>> ELSE <<>>) \o TrimmedNonEmpty(Tail(parts))

\* GetAppEnv's ALLOWED_ORIGINS: the loop ranges over the slice Split returned
\* and appends to that same variable, so the raw entries stay in front of the
\* trimmed ones
AppEnvOrigins(str) ==
    IF str = <<>> THEN <<>>
    ELSE LET parts == Split(str, ",") IN parts \o TrimmedNonEmpty(parts)

\* the AppEnv that the once.Do body of GetAppEnv builds (SECRET_KEY is set)
BuildAppEnv(e) ==
    [set             |-> TRUE,
     ALLOWED_ORIGINS |-> AppEnvOrigins(e.ALLOWED_ORIGINS),
     SECRET_KEY      |-> e.SECRET_KEY,
     MAX_WIDTH       |-> EnvPositive(e.MAX_WIDTH, DefaultMaxDim),
     MAX_HEIGHT      |-> EnvPositive(e.MAX_HEIGHT, DefaultMaxDim),
     FETCH_TIMEOUT   |-> EnvPositive(e.FETCH_TIMEOUT, DefaultFetchTimeout)]

\* the value of appEnv before the first GetAppEnv call
NoAppEnv ==
    [set |-> FALSE, ALLOWED_ORIGINS |-> <<>>, SECRET_KEY |-> "",
     MAX_WIDTH |-> 0, MAX_HEIGHT |-> 0, FETCH_TIMEOUT |-> 0]

\* GetAppEnv: the singleton after the call; log.Fatal ends the process when
\* the first call finds no SECRET_KEY
GetAppEnvFatal(cur, e) == ~cur.set /\ e.SECRET_KEY = ""

GetAppEnv(cur, e) == IF cur.set THEN cur ELSE BuildAppEnv(e)

RECURSIVE AppendNew(_, _)
\* the loop of the libs init: append each trimmed entry that is neither blank
\* nor already listed
AppendNew(list, parts) ==
    IF parts = <<>> THEN list
    ELSE LET t == TrimSpace(Head(parts))
         IN  AppendNew(IF t # <<>> /\ ~Contains(list, t) THEN Append(list, t) ELSE list,
                       Tail(parts))

\* the allowedOrigins literal of image-optimizer.go: tarkams.com,
\* s.tarkams.com, staging-files.tarkams.com and the default origin, each
\* written with one letter
HardCodedOrigins == << <<"t">>, <<"u">>, <<"v">>, DefaultOrigin >>

RECURSIVE AppendAll(_, _)
\* the init loop without its slices.Contains test
AppendAll(list, parts) ==
    IF parts = <<>> THEN list
    ELSE LET t == TrimSpace(Head(parts))
         IN  AppendAll(IF t # <<>> THEN Append(list, t) ELSE list, Tail(parts))

\* libs.init keeping repeated entries
LibsInitKeepRepeated(str) ==
    IF str = <<>> THEN <<DefaultOrigin>>
    ELSE AppendAll(<<DefaultOrigin>>, Split(str, ","))

\* libs.init: the default origin, then the entries of ALLOWED_ORIGINS
LibsInit(str) ==
    IF str = <<>> THEN <<DefaultOrigin>>
    ELSE AppendNew(<<DefaultOrigin>>, Split(str, ","))

\* IsAllowedOrigin matching the end of the host against the entries
IsAllowedOriginSuffix(cfg, urlParam) ==
    LET Listed(u, l) ==
            u.ok /\ \E i \in 1..Len(l) :
                      /\ Len(l[i]) <= Len(u.Host)
                      /\ SubSeq(u.Host, Len(u.Host) - Len(l[i]) + 1, Len(u.Host)) = l[i]
    IN  Listed(UrlParse(urlParam), cfg.ALLOWED_ORIGINS)

\* helpers.IsAllowedOrigin on the AppEnv list
IsAllowedOrigin(cfg, urlParam) ==
    LET Listed(u) == u.ok /\ Contains(cfg.ALLOWED_ORIGINS, u.Host)
    IN  Listed(UrlParse(urlParam))

----------------------------------------------------------------------------
(* Response bodies and headers *)

StatusOK == 200

StatusBadRequest == 400

StatusForbidden == 403

StatusUnprocessableEntity == 422

\* cacheTime of the success response: one year
SuccessCacheSeconds == 31536000

\* the error responses: three days, one minute for a 403
ErrorCacheSeconds == 259200

ForbiddenCacheSeconds == 60

B64Alphabet ==
    <<"A", "B", "C", "D", "E", "F", "G", "H", "I", "J", "K", "L", "M", "N", "O", "P",
      "Q", "R", "S", "T", "U", "V", "W", "X", "Y", "Z", "a", "b", "c", "d", "e", "f",
      "g", "h", "i", "j", "k", "l", "m", "n", "o", "p", "q", "r", "s", "t", "u", "v",
      "w", "x", "y", "z", "0", "1", "2", "3", "4", "5", "6", "7", "8", "9", "+", "/">>

B64Char(n) == B64Alphabet[n + 1]

RECURSIVE Base64StdEncode(_)
\* base64.StdEncoding.EncodeToString: three bytes to four characters, the last
\* group padded with =
Base64StdEncode(bs) ==
    IF bs = <<>> THEN <<>>
    ELSE IF Len(bs) = 1
    THEN <<B64Char(bs[1] \div 4), B64Char((bs[1] % 4) * 16), "=", "=">>
    ELSE IF Len(bs) = 2
    THEN <<B64Char(bs[1] \div 4),
           B64Char((bs[1] % 4) * 16 + bs[2] \div 16),
           B64Char((bs[2] % 16) * 4), "=">>
    ELSE <<B64Char(bs[1] \div 4),
           B64Char((bs[1] % 4) * 16 + bs[2] \div 16),
           B64Char((bs[2] % 16) * 4 + bs[3] \div 64),
           B64Char(bs[3] % 64)>> \o Base64StdEncode(SubSeq(bs, 4, Len(bs)))

\* "public, max-age=N, s-maxage=N"
CacheControlBoth(n) ==
    <<"public", ",", " ", "max-age", "=">> \o Itoa(n)
        \o <<",", " ", "s-maxage", "=">> \o Itoa(n)

\* "public, max-age=N"
CacheControlMaxAge(n) == <<"public", ",", " ", "max-age", "=">> \o Itoa(n)

\* fmt.Sprintf(`{"error": "%s"}`, msg): the message is pasted as it is
SprintfErrorBody(msg) ==
    <<"{", "\"", "error", "\"", ":", " ", "\"">> \o msg \o <<"\"", "}">>

RECURSIVE JsonEscape(_)
\* the string escaping of json.Marshal for quotes and backslashes
JsonEscape(msg) ==
    IF msg = <<>> THEN <<>>
    ELSE IF Head(msg) \in {"\"", "\\"} THEN <<"\\", Head(msg)>> \o JsonEscape(Tail(msg))
    ELSE <<Head(msg)>> \o JsonEscape(Tail(msg))

\* json.Marshal(ErrorResponse{Error: msg})
MarshalErrorBody(msg) ==
    <<"{", "\"", "error", "\"", ":", "\"">> \o JsonEscape(msg) \o <<"\"", "}">>

\* errResponse of main.go
errResponse(msg, statusCode) ==
    [StatusCode      |-> statusCode,
     Body            |-> SprintfErrorBody(msg),
     IsBase64Encoded |-> FALSE,
     Headers         |-> {<<"Content-Type", <<"application/json">>>>,
                          <<"Cache-Control",
                            CacheControlBoth(IF statusCode = StatusForbidden
                                             THEN ForbiddenCacheSeconds
                                             ELSE ErrorCacheSeconds)>>}]

\* helpers.ErrResponse
ErrResponse(msg, statusCode) ==
    [StatusCode      |-> statusCode,
     Body            |-> MarshalErrorBody(msg),
     IsBase64Encoded |-> FALSE,
     Headers         |-> {<<"Content-Type", <<"application/json">>>>,
                          <<"Cache-Control",
                            CacheControlBoth(IF statusCode = StatusForbidden
                                             THEN ForbiddenCacheSeconds
                                             ELSE ErrorCacheSeconds)>>}]

\* the two literal 400 responses of the legacy handler: no Cache-Control
LegacyErrResponse(msg) ==
    [StatusCode      |-> StatusBadRequest,
     Body            |-> SprintfErrorBody(msg),
     IsBase64Encoded |-> FALSE,
     Headers         |-> {<<"Content-Type", <<"application/json">>>>}]

\* SuccessResponse without the base64 flag
SuccessResponseUnflagged(imageBytes) ==
    [StatusCode      |-> StatusOK,
     Body            |-> Base64StdEncode(imageBytes),
     IsBase64Encoded |-> FALSE,
     Headers         |-> {<<"Content-Type", <<"image/webp">>>>,
                          <<"Cache-Control", CacheControlBoth(SuccessCacheSeconds)>>}]

\* the 200 response of main.go and of the helpers build
SuccessResponse(imageBytes) ==
    [StatusCode      |-> StatusOK,
     Body            |-> Base64StdEncode(imageBytes),
     IsBase64Encoded |-> TRUE,
     Headers         |-> {<<"Content-Type", <<"image/webp">>>>,
                          <<"Cache-Control", CacheControlBoth(SuccessCacheSeconds)>>}]

\* the 200 response of the legacy handler
LegacySuccessResponse(imageBytes) ==
    [StatusCode      |-> StatusOK,
     Body            |-> Base64StdEncode(imageBytes),
     IsBase64Encoded |-> TRUE,
     Headers         |-> {<<"Content-Type", <<"image/webp">>>>,
                          <<"Cache-Control", CacheControlMaxAge(SuccessCacheSeconds)>>}]

----------------------------------------------------------------------------
(* The fetched response and its validation *)

UpperCase ==
    <<"A", "B", "C", "D", "E", "F", "G", "H", "I", "J", "K", "L", "M",
      "N", "O", "P", "Q", "R", "S", "T", "U", "V", "W", "X", "Y", "Z">>

LowerCase ==
    <<"a", "b", "c", "d", "e", "f", "g", "h", "i", "j", "k", "l", "m",
      "n", "o", "p", "q", "r", "s", "t", "u", "v", "w", "x", "y", "z">>

ToLowerChar(c) ==
    IF \E i \in 1..26 : UpperCase[i] = c
    THEN LowerCase[CHOOSE i \in 1..26 : UpperCase[i] = c]
    ELSE c

\* strings.ToLower
ToLower(s) == [i \in 1..Len(s) |-> ToLowerChar(s[i])]

\* strings.HasPrefix
HasPrefix(s, p) == Len(s) >= Len(p) /\ SubSeq(s, 1, Len(p)) = p

\* isImageContentType comparing the prefix without lower-casing
isImageContentTypeCaseSensitive(contentType) ==
    LET ct == TrimSpace(contentType)
    IN  IF ct = <<>> THEN FALSE
        ELSE HasPrefix(TrimSpace(Split(ct, ";")[1]), <<"i", "m", "a", "g", "e", "/">>)

\* isImageContentType
isImageContentType(contentType) ==
    LET ct == ToLower(TrimSpace(contentType))
    IN  IF ct = <<>> THEN FALSE
        ELSE HasPrefix(TrimSpace(Split(ct, ";")[1]), <<"i", "m", "a", "g", "e", "/">>)

\* isImageFileSignature without its test for fewer than 4 bytes
isImageFileSignatureAnyLength(data) ==
    LET n == Len(data)
    IN  \/ (n >= 3 /\ data[1] = 255 /\ data[2] = 216 /\ data[3] = 255)
        \/ (n >= 4 /\ data[1] = 137 /\ data[2] = 80 /\ data[3] = 78 /\ data[4] = 71)
        \/ (n >= 4 /\ data[1] = 71 /\ data[2] = 73 /\ data[3] = 70 /\ data[4] = 56)
        \/ (n >= 12 /\ data[1] = 82 /\ data[2] = 73 /\ data[3] = 70 /\ data[4] = 70
                    /\ data[9] = 87 /\ data[10] = 69 /\ data[11] = 66 /\ data[12] = 80)
        \/ (n >= 2 /\ data[1] = 66 /\ data[2] = 77)
        \/ (n >= 4 /\ (\/ (data[1] = 73 /\ data[2] = 73 /\ data[3] = 42 /\ data[4] = 0)
                       \/ (data[1] = 77 /\ data[2] = 77 /\ data[3] = 0 /\ data[4] = 42)))
        \/ (n >= 12 /\ data[5] = 102 /\ data[6] = 116 /\ data[7] = 121 /\ data[8] = 112
                    /\ SubSeq(data, 9, 12) \in {<<104, 101, 105, 99>>,
                                                <<104, 101, 105, 102>>,
                                                <<109, 105, 102, 49>>})

\* isImageFileSignature, on a sequence of byte values
isImageFileSignature(data) ==
    LET n == Len(data)
    IN  IF n < 4 THEN FALSE
        ELSE \/ (n >= 3 /\ data[1] = 255 /\ data[2] = 216 /\ data[3] = 255)
             \/ (n >= 4 /\ data[1] = 137 /\ data[2] = 80 /\ data[3] = 78 /\ data[4] = 71)
             \/ (n >= 4 /\ data[1] = 71 /\ data[2] = 73 /\ data[3] = 70 /\ data[4] = 56)
             \/ (n >= 12 /\ data[1] = 82 /\ data[2] = 73 /\ data[3] = 70 /\ data[4] = 70
                         /\ data[9] = 87 /\ data[10] = 69 /\ data[11] = 66 /\ data[12] = 80)
             \/ (n >= 2 /\ data[1] = 66 /\ data[2] = 77)
             \/ (n >= 4 /\ (\/ (data[1] = 73 /\ data[2] = 73 /\ data[3] = 42 /\ data[4] = 0)
                            \/ (data[1] = 77 /\ data[2] = 77 /\ data[3] = 0 /\ data[4] = 42)))
             \/ (n >= 8 /\ data[5] = 102 /\ data[6] = 116 /\ data[7] = 121 /\ data[8] = 112
                        /\ n >= 12
                        /\ SubSeq(data, 9, 12) \in {<<104, 101, 105, 99>>,
                                                    <<104, 101, 105, 102>>,
                                                    <<109, 105, 102, 49>>})

\* size of the peek buffer of validateImageFile
PeekSize == 12

\* validateImageFile: net.n is the number of bytes the first Read returns and
\* net.readErr tells whether that Read fails with an error other than io.EOF
\* validateImageFile reading the body before it looks at the content type
validateImageFileReadFirst(net) ==
    IF net.readErr
    THEN [ok |-> FALSE, reader |-> "nil", body |-> <<>>, why |-> "read",
          err |-> <<"failed to read image file: ", "%w">>, reads |-> 1]
    ELSE IF ~isImageFileSignature(SubSeq(net.body, 1, net.n))
    THEN [ok |-> FALSE, reader |-> "nil", body |-> <<>>, why |-> "signature",
          err |-> <<"invalid image file signature">>, reads |-> 1]
    ELSE IF ~isImageContentType(net.ctype)
    THEN [ok |-> FALSE, reader |-> "nil", body |-> <<>>, why |-> "content type",
          err |-> <<"invalid content type: ">> \o net.ctype, reads |-> 1]
    ELSE [ok |-> TRUE, reader |-> "MultiReader", body |-> net.body, why |-> "ok",
          err |-> <<>>, reads |-> 1]

\* validateImageFile handing back only what is left of the body after the peek
validateImageFileDropPeek(net) ==
    IF ~isImageContentType(net.ctype)
    THEN [ok |-> FALSE, reader |-> "nil", body |-> <<>>, why |-> "content type",
          err |-> <<"invalid content type: ">> \o net.ctype, reads |-> 0]
    ELSE IF net.readErr
    THEN [ok |-> FALSE, reader |-> "nil", body |-> <<>>, why |-> "read",
          err |-> <<"failed to read image file: ", "%w">>, reads |-> 1]
    ELSE IF ~isImageFileSignature(SubSeq(net.body, 1, net.n))
    THEN [ok |-> FALSE, reader |-> "nil", body |-> <<>>, why |-> "signature",
          err |-> <<"invalid image file signature">>, reads |-> 1]
    ELSE [ok |-> TRUE, reader |-> "MultiReader",
          body |-> SubSeq(net.body, net.n + 1, Len(net.body)), why |-> "ok",
          err |-> <<>>, reads |-> 1]

\* The result tells whether the returned reader is nil, what reading it to the
\* end gives (body), the error text, and how many Read calls went to resp.Body
validateImageFile(net) ==
    IF ~isImageContentType(net.ctype)
    THEN [ok |-> FALSE, reader |-> "nil", body |-> <<>>, why |-> "content type",
          err |-> <<"invalid content type: ">> \o net.ctype, reads |-> 0]
    ELSE IF net.readErr
    THEN [ok |-> FALSE, reader |-> "nil", body |-> <<>>, why |-> "read",
          err |-> <<"failed to read image file: ", "%w">>, reads |-> 1]
    ELSE IF ~isImageFileSignature(SubSeq(net.body, 1, net.n))
    THEN [ok |-> FALSE, reader |-> "nil", body |-> <<>>, why |-> "signature",
          err |-> <<"invalid image file signature">>, reads |-> 1]
    ELSE [ok     |-> TRUE,
          reader |-> "MultiReader",
          body   |-> SubSeq(net.body, 1, net.n) \o SubSeq(net.body, net.n + 1, Len(net.body)),
          why    |-> "ok",
          err    |-> <<>>,
          reads  |-> 1]

\* decode, resize and encode inside libvips: either step may fail, and the
\* encoder's output is whatever the library produces
VipsPipeline(net) ==
    IF ~net.decodeOK THEN [result |-> <<>>, stage |-> "decode"]
    ELSE IF ~net.encodeOK THEN [result |-> <<>>, stage |-> "encode"]
    ELSE [result |-> net.img, stage |-> "ok"]

\* what one Optimize call leaves behind: the bytes returned, the hosts an HTTP
\* GET was sent to, and the step at which it returned
OptOutcome(params, result, fetched, stage) ==
    [params |-> params, result |-> result, fetched |-> fetched, stage |-> stage]

\* Optimize with the origin check moved behind the fetch
OptimizeFetchFirst(list, params, net) ==
    LET From(u) ==
            IF ~u.ok THEN OptOutcome(params, <<>>, <<>>, "parse")
            ELSE IF ~Dialable(u) THEN OptOutcome(params, <<>>, <<>>, "fetch")
            ELSE IF net.netErr THEN OptOutcome(params, <<>>, <<u.Host>>, "fetch")
            ELSE IF ~Contains(list, u.Host) THEN OptOutcome(params, <<>>, <<u.Host>>, "origin")
            ELSE LET v == VipsPipeline(net)
                 IN  OptOutcome(params, v.result, <<u.Host>>, v.stage)
    IN  From(UrlParse(params.Url))

\* ImageOptimizerHandler.Optimize of the libs package: allow-list, http.Get,
\* decode
Optimize(list, params, net) ==
    LET From(u) ==
            IF ~u.ok THEN OptOutcome(params, <<>>, <<>>, "parse")
            ELSE IF ~Contains(list, u.Host) THEN OptOutcome(params, <<>>, <<>>, "origin")
            ELSE IF ~Dialable(u) THEN OptOutcome(params, <<>>, <<>>, "fetch")
            ELSE IF net.netErr THEN OptOutcome(params, <<>>, <<u.Host>>, "fetch")
            ELSE LET v == VipsPipeline(net)
                 IN  OptOutcome(params, v.result, <<u.Host>>, v.stage)
    IN  From(UrlParse(params.Url))

\* Optimize of the helpers build from client.Do on, the request having gone
\* to the hosts in fetched: error of the fetch, status check,
\* validateImageFile, decode
OptimizeValidatedFrom(params, fetched, net) ==
    IF net.netErr THEN OptOutcome(params, <<>>, fetched, "fetch")
    ELSE IF net.status # StatusOK THEN OptOutcome(params, <<>>, fetched, "status")
    ELSE IF ~validateImageFile(net).ok THEN OptOutcome(params, <<>>, fetched, "validate")
    ELSE LET v == VipsPipeline(net)
         IN  OptOutcome(params, v.result, fetched, v.stage)

\* ImageOptimizerHandler.Optimize of the helpers build: timeout, status check,
\* validateImageFile, decode; no allow-list of its own
OptimizeValidated(params, net) ==
    LET From(u) ==
            IF ~u.ok THEN OptOutcome(params, <<>>, <<>>, "parse")
            ELSE IF ~Dialable(u) THEN OptOutcome(params, <<>>, <<>>, "fetch")
            ELSE OptimizeValidatedFrom(params, <<u.Host>>, net)
    IN  From(UrlParse(params.Url))

----------------------------------------------------------------------------
(* Request parsing and the three handlers *)

\* a query parameter: the (value, ok) pair of a Go map lookup
Absent == [present |-> FALSE, value |-> <<>>]

Given(str) == [present |-> TRUE, value |-> str]

\* ParseParamsInt reading a malformed number as 0 instead of failing
ParseParamsIntLenient(p, key) ==
    IF ~p.present
    THEN [val |-> 0, ok |-> FALSE, err |-> <<"missing ", key, " parameter">>]
    ELSE [val |-> Atoi(p.value).val, ok |-> TRUE, err |-> <<>>]

\* parseParams[int] / helpers.ParseParams[int]
ParseParamsInt(p, key) ==
    IF ~p.present
    THEN [val |-> 0, ok |-> FALSE, err |-> <<"missing ", key, " parameter">>]
    ELSE IF ~Atoi(p.value).ok
    THEN [val |-> 0, ok |-> FALSE,
          err |-> <<"invalid integer value for ", key, " parameter">>]
    ELSE [val |-> Atoi(p.value).val, ok |-> TRUE, err |-> <<>>]

\* parseParams[string] / helpers.ParseParams[string]
ParseParamsString(p, key) ==
    IF ~p.present
    THEN [val |-> <<>>, ok |-> FALSE, err |-> <<"missing ", key, " parameter">>]
    ELSE [val |-> p.value, ok |-> TRUE, err |-> <<>>]

\* req.Headers[name]: the empty string when the map has no such key
HeaderValue(headers, name) ==
    IF \E p \in headers : p[1] = name
    THEN (CHOOSE p \in headers : p[1] = name)[2]
    ELSE ""

HeaderLower(name) ==
    CASE name = "Secret-Auth-Key" -> "secret-auth-key"
      [] name = "Imgop-Key" -> "imgop-key"
      [] OTHER -> name

\* helpers.GetHeaders: the map with lower-cased keys.  Two keys that differ
\* only in case collide, and the map iteration order decides which value stays
GetHeaders(headers) ==
    LET lowered == {<<HeaderLower(p[1]), p[2]>> : p \in headers}
        names   == {p[1] : p \in lowered}
    IN  {m \in SUBSET lowered :
            /\ {p[1] : p \in m} = names
            /\ \A p1, p2 \in m : p1[1] = p2[1] => p1 = p2}

ForbiddenMsg == <<"Forbidden, secret key is incorrect">>

\* validateParams testing the height before the width
validateParamsHeightFirst(cfg, params) ==
    IF params.Height < 1 \/ params.Height > cfg.MAX_HEIGHT
    THEN [ok |-> FALSE, params |-> params,
          err |-> <<"height must be between ", "1", " and ">> \o Itoa(cfg.MAX_HEIGHT)]
    ELSE IF params.Width < 1 \/ params.Width > cfg.MAX_WIDTH
    THEN [ok |-> FALSE, params |-> params,
          err |-> <<"width must be between ", "1", " and ">> \o Itoa(cfg.MAX_WIDTH)]
    ELSE IF params.Quality < 1 \/ params.Quality > 100
    THEN [ok |-> FALSE, params |-> params,
          err |-> <<"quality must be between ", "1", " and ", "100">>]
    ELSE [ok |-> TRUE, params |-> params, err |-> <<>>]

\* validateParams of main.go: every field from 1 up; the parameters come back
\* as they went in
validateParams(cfg, params) ==
    LET imageParams == [Url |-> params.Url, Width |-> params.Width,
                        Height |-> params.Height, Quality |-> params.Quality]
    IN  IF imageParams.Width < 1 \/ imageParams.Width > cfg.MAX_WIDTH
        THEN [ok |-> FALSE, params |-> imageParams,
              err |-> <<"width must be between ", "1", " and ">> \o Itoa(cfg.MAX_WIDTH)]
        ELSE IF imageParams.Height < 1 \/ imageParams.Height > cfg.MAX_HEIGHT
        THEN [ok |-> FALSE, params |-> imageParams,
              err |-> <<"height must be between ", "1", " and ">> \o Itoa(cfg.MAX_HEIGHT)]
        ELSE IF imageParams.Quality < 1 \/ imageParams.Quality > 100
        THEN [ok |-> FALSE, params |-> imageParams,
              err |-> <<"quality must be between ", "1", " and ", "100">>]
        ELSE [ok |-> TRUE, params |-> imageParams, err |-> <<>>]

\* helpers.ValidateParams: every field from 0 up
ValidateParams(cfg, params) ==
    IF params.Width < 0 \/ params.Width > cfg.MAX_WIDTH
    THEN [ok |-> FALSE, err |-> <<"width must be between ", "0", " and ">> \o Itoa(cfg.MAX_WIDTH)]
    ELSE IF params.Height < 0 \/ params.Height > cfg.MAX_HEIGHT
    THEN [ok |-> FALSE, err |-> <<"height must be between ", "0", " and ">> \o Itoa(cfg.MAX_HEIGHT)]
    ELSE IF params.Quality < 0 \/ params.Quality > 100
    THEN [ok |-> FALSE, err |-> <<"quality must be between ", "0", " and ", "100">>]
    ELSE [ok |-> TRUE, err |-> <<>>]

ParamsOptimize(url, width, height, quality) ==
    [Url |-> url, Width |-> width, Height |-> height, Quality |-> quality]

\* a handler either answers before Optimize or goes on to call it
Reject(response) == [call |-> FALSE, resp |-> response, params |-> ParamsOptimize(<<>>, 0, 0, 0)]

Proceed(params) ==
    [call |-> TRUE, params |-> params,
     resp |-> [StatusCode |-> 0, Body |-> <<>>, IsBase64Encoded |-> FALSE, Headers |-> {}]]

\* handlerMainParse with the secret compared after the parameters were parsed
handlerMainParseAuthLast(cfg, r) ==
    LET width   == ParseParamsInt(r.w, "w")
        height  == ParseParamsInt(r.h, "h")
        quality == ParseParamsInt(r.q, "q")
        urlP    == ParseParamsString(r.url, "url")
        params  == ParamsOptimize(urlP.val, width.val, height.val, quality.val)
        valid   == validateParams(cfg, params)
    IN  IF ~width.ok THEN Reject(errResponse(width.err, StatusUnprocessableEntity))
        ELSE IF ~height.ok THEN Reject(errResponse(height.err, StatusUnprocessableEntity))
        ELSE IF ~quality.ok THEN Reject(errResponse(quality.err, StatusUnprocessableEntity))
        ELSE IF ~urlP.ok THEN Reject(errResponse(urlP.err, StatusUnprocessableEntity))
        ELSE IF ~valid.ok THEN Reject(errResponse(valid.err, StatusUnprocessableEntity))
        ELSE IF HeaderValue(r.headers, "secret-auth-key") # cfg.SECRET_KEY
        THEN Reject(errResponse(ForbiddenMsg, StatusForbidden))
        ELSE Proceed(params)

\* handler of main.go up to the Optimize call
handlerMainParse(cfg, r) ==
    LET width   == ParseParamsInt(r.w, "w")
        height  == ParseParamsInt(r.h, "h")
        quality == ParseParamsInt(r.q, "q")
        urlP    == ParseParamsString(r.url, "url")
        params  == ParamsOptimize(urlP.val, width.val, height.val, quality.val)
        valid   == validateParams(cfg, params)
    IN  IF HeaderValue(r.headers, "secret-auth-key") # cfg.SECRET_KEY
        THEN Reject(errResponse(ForbiddenMsg, StatusForbidden))
        ELSE IF ~width.ok THEN Reject(errResponse(width.err, StatusUnprocessableEntity))
        ELSE IF ~height.ok THEN Reject(errResponse(height.err, StatusUnprocessableEntity))
        ELSE IF ~quality.ok THEN Reject(errResponse(quality.err, StatusUnprocessableEntity))
        ELSE IF ~urlP.ok THEN Reject(errResponse(urlP.err, StatusUnprocessableEntity))
        ELSE IF ~valid.ok THEN Reject(errResponse(valid.err, StatusUnprocessableEntity))
        ELSE Proceed(params)

\* handler of main.go after Optimize returned
handlerMainRespond(imageBytes) == SuccessResponse(imageBytes)

\* handler of the helpers build up to the Optimize call; reqHeaders is the map
\* GetHeaders returned
handlerHelpersParse(cfg, r, reqHeaders) ==
    LET width   == ParseParamsInt(r.w, "w")
        height  == ParseParamsInt(r.h, "h")
        quality == ParseParamsInt(r.q, "q")
        urlP    == ParseParamsString(r.url, "url")
        unesc   == QueryUnescape(urlP.val)
        params  == ParamsOptimize(unesc.val, width.val, height.val, quality.val)
        valid   == ValidateParams(cfg, params)
    IN  IF \/ ~(\E p \in reqHeaders : p[1] = "imgop-key")
           \/ HeaderValue(reqHeaders, "imgop-key") # cfg.SECRET_KEY
        THEN Reject(ErrResponse(ForbiddenMsg, StatusForbidden))
        ELSE IF width.val + height.val = 0 /\ ~width.ok
        THEN Reject(ErrResponse(width.err, StatusUnprocessableEntity))
        ELSE IF width.val + height.val = 0 /\ ~height.ok
        THEN Reject(ErrResponse(height.err, StatusUnprocessableEntity))
        ELSE IF ~urlP.ok THEN Reject(ErrResponse(urlP.err, StatusUnprocessableEntity))
        ELSE IF ~unesc.ok THEN Reject(ErrResponse(unesc.err, StatusUnprocessableEntity))
        ELSE IF ~IsAllowedOrigin(cfg, unesc.val)
        THEN Reject(ErrResponse(<<"invalid url allowed origin">>, StatusUnprocessableEntity))
        ELSE IF ~valid.ok THEN Reject(ErrResponse(valid.err, StatusUnprocessableEntity))
        ELSE Proceed(params)

\* handler of the helpers build after Optimize returned
handlerHelpersRespond(imageBytes) == SuccessResponse(imageBytes)

\* the default quality of the legacy handler
LegacyDefaultQuality == 80

\* req.QueryStringParameters[key]: the empty string when the key is missing
QueryValue(p) == IF p.present THEN p.value ELSE <<>>

\* the legacy handler up to the Optimize call
handlerLegacyParse(r) ==
    LET url     == QueryValue(r.url)
        width   == IF QueryValue(r.w) # <<>> THEN Sscanf(QueryValue(r.w), 0) ELSE 0
        height  == IF QueryValue(r.h) # <<>> THEN Sscanf(QueryValue(r.h), 0) ELSE 0
        quality == IF QueryValue(r.q) # <<>>
                   THEN Sscanf(QueryValue(r.q), LegacyDefaultQuality)
                   ELSE LegacyDefaultQuality
    IN  IF url = <<>> THEN Reject(LegacyErrResponse(<<"Missing 'url' parameter">>))
        ELSE Proceed(ParamsOptimize(url, width, height, quality))

\* the legacy handler after Optimize returned
handlerLegacyRespond(imageBytes) ==
    IF Len(imageBytes) = 0
    THEN LegacyErrResponse(<<"Failed to optimize image. Check URL and allowed origins.">>)
    ELSE LegacySuccessResponse(imageBytes)

----------------------------------------------------------------------------
(* Inputs *)

\* the three handler builds, and the two packages called directly the way
\* their tests do: libs with its allow-list (libsDirect) and libs with the
\* validated fetch together with the helpers package (helpersDirect)
Builds == {"main", "helpers", "legacy", "libsDirect", "helpersDirect"}

\* the environments tried: every ALLOWED_ORIGINS value over the letters a , and
\* blank up to MaxEnvLen, SECRET_KEY unset or "k", MAX_WIDTH 2, MAX_HEIGHT unset
EnvSamples ==
    [ALLOWED_ORIGINS : StringsUpTo({"a", ",", " "}, MaxEnvLen),
     SECRET_KEY      : {"", "k"},
     MAX_WIDTH       : {<<"2">>},
     MAX_HEIGHT      : {<<>>},
     FETCH_TIMEOUT   : {<<>>}]

HeaderSamples ==
    {{},
     {<<"secret-auth-key", "z">>, <<"imgop-key", "z">>},
     {<<"secret-auth-key", "k">>, <<"imgop-key", "k">>},
     {<<"Secret-Auth-Key", "k">>, <<"Imgop-Key", "k">>, <<"imgop-key", "z">>}}

WSamples == {Absent, Given(<<"x">>), Given(<<"0">>), Given(<<"1">>), Given(<<"3">>)}

HSamples == {Absent, Given(<<"0">>), Given(<<"1">>)}

QSamples ==
    {Absent, Given(<<"1", "x">>), Given(<<"-", "1">>), Given(<<"0">>),
     Given(<<"1", "0", "0">>), Given(<<"1", "0", "1">>)}

UrlSamples ==
    {Absent, Given(<<>>), Given(<<"%">>), Given(<<"a">>),
     Given(<<"s", ":", "/", "/", "a">>),
     Given(<<"s", ":", "/", "/", "g">>),
     Given(<<"s", ":", "/", "/", "a", "@", "g">>),
     Given(<<"s", ":", "/", "/", "a", ":", "8">>)}

Requests == [headers : HeaderSamples, w : WSamples, h : HSamples, q : QSamples, url : UrlSamples]

\* the legacy handler reads no header
LegacyRequests == {r \in Requests : r.headers = {}}

\* what the encoder may return
ImageSamples == StringsUpTo({82, 255}, MaxImgLen) \ {<<>>}

\* the fetch fails before any response (network error, timeout)
NetDown ==
    [netErr |-> TRUE, status |-> 0, ctype |-> <<>>, body |-> <<>>, n |-> 0,
     readErr |-> FALSE, decodeOK |-> FALSE, encodeOK |-> FALSE, img |-> <<>>]

\* a 200 response with an image content type and a JPEG body, read in one go
NetGood ==
    [netErr |-> FALSE, status |-> StatusOK, ctype |-> <<"i", "m", "a", "g", "e", "/", "j">>,
     body |-> <<255, 216, 255, 224>>, n |-> 4,
     readErr |-> FALSE, decodeOK |-> FALSE, encodeOK |-> FALSE, img |-> <<>>]

\* everything the remote server and libvips may do on one fetch: no response,
\* a 404, a wrong content type, a body that is no image, a first Read that
\* stops short or fails, a decode or encode failure, an encoded image
NetOutcomes ==
    {NetDown,
     [NetGood EXCEPT !.status = 404, !.body = <<60, 104, 116, 109>>],
     [NetGood EXCEPT !.status = 404, !.decodeOK = TRUE, !.encodeOK = TRUE, !.img = <<82>>],
     [NetGood EXCEPT !.ctype = <<"t", "e", "x", "t", "/", "h">>],
     [NetGood EXCEPT !.body = <<60, 104, 116, 109>>],
     [NetGood EXCEPT !.n = 3],
     [NetGood EXCEPT !.readErr = TRUE],
     NetGood,
     [NetGood EXCEPT !.decodeOK = TRUE]}
    \cup {[NetGood EXCEPT !.decodeOK = TRUE, !.encodeOK = TRUE, !.img = i] : i \in ImageSamples}

\* Optimize consults the network only for a URL that can be dialled
NetsFor(url) == IF Dialable(UrlParse(url)) THEN NetOutcomes ELSE {NetDown}

EmptyReq == [headers |-> {}, w |-> Absent, h |-> Absent, q |-> Absent, url |-> Absent]

NoResp == [StatusCode |-> 0, Body |-> <<>>, IsBase64Encoded |-> FALSE, Headers |-> {}]

\* ALLOWED_ORIGINS values with repeated, padded and empty entries
LongEnvValues ==
    {<<"a", ",", "a">>,
     <<" ", "a", " ", ",", "g">>,
     <<",", "a", ",", ",", "x">>}

\* the environments of the libs package under direct calls (the legacy build
\* starts the same package under every short value)
LibsEnvSamples ==
    [ALLOWED_ORIGINS : {<<>>} \cup LongEnvValues,
     SECRET_KEY      : {"k"},
     MAX_WIDTH       : {<<>>},
     MAX_HEIGHT      : {<<>>},
     FETCH_TIMEOUT   : {<<>>}]

\* the arguments tried for AddAllowedOrigin
OriginSamples == {<<>>, <<"a">>, <<"x">>}

\* the slices tried for SetAllowedOrigins: empty, one entry, two entries, and
\* one with an empty entry and an entry twice
SetSamples ==
    {<<>>, << <<"a">> >>, << <<"x", ".", "a">>, <<"g">> >>, << <<"a">>, <<>>, <<"a">> >>}

\* the value a caller writes into a slice it holds
Scribble == <<"x">>

\* the URLs tried on the origin check: an allowed name as the host, under a
\* subdomain, with a port, in the userinfo only, in the path only, and strings
\* without a host
OriginUrlSamples ==
    {<<"s", ":", "/", "/", "a">>,
     <<"s", ":", "/", "/", "g">>,
     <<"s", ":", "/", "/", "x", ".", "a">>,
     <<"s", ":", "/", "/", "a", ":", "8">>,
     <<"s", ":", "/", "/", "a", "@", "g">>,
     <<"s", ":", "/", "/", "g", "/", "a">>,
     <<"a">>,
     <<>>}

\* bodies of 3, 4, 12 and 13 bytes with a JPEG, WebP and PNG signature, and HTML
BodySamples ==
    {<<>>,
     <<255, 216, 255>>,
     <<255, 216, 255, 224>>,
     <<82, 73, 70, 70, 0, 0, 0, 0, 87, 69, 66, 80>>,
     <<137, 80, 78, 71, 13, 10, 26, 10, 0, 0, 0, 13, 73>>,
     <<60, 104, 116, 109>>}

ContentTypeSamples ==
    {<<>>, <<"i", "m", "a", "g", "e", "/", "j">>, <<"t", "e", "x", "t", "/", "h">>}

\* how many bytes the first Read of a body may deliver: all the buffer takes,
\* or fewer
FirstReads(body) ==
    LET full == IF Len(body) < PeekSize THEN Len(body) ELSE PeekSize
    IN  {full} \cup {k \in {3, 5} : k < full}

\* the responses handed to validateImageFile
ValidateSamples ==
    UNION {{[NetGood EXCEPT !.ctype = ct, !.body = b, !.n = k, !.readErr = e] :
               ct \in ContentTypeSamples, k \in FirstReads(b), e \in BOOLEAN} :
           b \in BodySamples}

\* the parameters handed to validateParams: each field below, at, inside and
\* above its range (MAX_WIDTH is 2 in every environment tried, MAX_HEIGHT the
\* default)
ParamSamples ==
    [Url : {<<>>, <<"a">>}, Width : {-1, 0, 1, 2, 3}, Height : {0, 1, 1800, 1801},
     Quality : {0, 1, 100, 101}]

\* the byte strings handed to isImageFileSignature: nothing, a JPEG prefix of
\* 3 bytes, a BMP prefix of 2, one signature of each kind of the table, RIFF
\* without WEBP and cut short, ftyp with another brand and cut short, HTML,
\* zeros
SignatureSamples ==
    {<<>>,
     <<255, 216, 255>>,
     <<66, 77>>,
     <<255, 216, 255, 224>>,
     <<137, 80, 78, 71>>,
     <<71, 73, 70, 56>>,
     <<66, 77, 0, 0>>,
     <<73, 73, 42, 0>>,
     <<77, 77, 0, 42>>,
     <<82, 73, 70, 70, 0, 0, 0, 0, 87, 69, 66, 80>>,
     <<82, 73, 70, 70, 0, 0, 0, 0, 87, 65, 86, 69>>,
     <<82, 73, 70, 70, 0, 0, 0, 0>>,
     <<0, 0, 0, 0, 102, 116, 121, 112, 104, 101, 105, 99>>,
     <<0, 0, 0, 0, 102, 116, 121, 112, 104, 101, 105, 102>>,
     <<0, 0, 0, 0, 102, 116, 121, 112, 109, 105, 102, 49>>,
     <<0, 0, 0, 0, 102, 116, 121, 112, 105, 115, 111, 109>>,
     <<0, 0, 0, 0, 102, 116, 121, 112>>,
     <<60, 104, 116, 109>>,
     <<0, 0, 0, 0>>}

\* the header values handed to isImageContentType
HeaderValueSamples ==
    {<<>>,
     <<" ">>,
     <<"i", "m", "a", "g", "e", "/", "j">>,
     <<"I", "M", "A", "G", "E", "/", "J">>,
     <<"I", "m", "A", "g", "E", "/", "j">>,
     <<"\t", "i", "m", "a", "g", "e", "/", "j", "\n">>,
     <<"i", "m", "a", "g", "e", "/", "j", ";">>,
     <<"i", "m", "a", "g", "e", "/", "j", " ", ";", " ", "c", ";", " ", "b">>,
     <<"i", "m", "a", "g", "e">>,
     <<";", "i", "m", "a", "g", "e", "/", "j">>,
     <<"t", "e", "x", "t", "/", "h", ";", "i", "m", "a", "g", "e", "/", "j">>,
     <<"a", "p", "p", "l", "i", "c", "a", "t", "i", "o", "n", "/", "i", "m", "a", "g", "e">>,
     <<"s", "o", "m", "e", "t", "h", "i", "n", "g", "/", "i", "m", "a", "g", "e">>}

\* no slice in the caller's hands
NoSlice ==
    [has |-> FALSE, elems |-> <<>>, cap |-> 0, shared |-> FALSE,
     fromGet |-> FALSE, given |-> FALSE]

NoCall == ParamsOptimize(<<>>, 0, 0, 0)

NoRemote == NetDown

\* the record of a direct call: the function, its string, list, index,
\* response, parameter or byte argument, the allow-list before the call, and the
\* boolean, the validation result or the checked parameters it returned
NoRet ==
    [fn |-> "", str |-> <<>>, list |-> <<>>, idx |-> 0, net |-> NetDown, before |-> <<>>,
     params |-> NoCall, data |-> <<>>,
     flag |-> FALSE,
     size |-> [Width |-> 0, Height |-> 0], scale |-> <<1, 1>>,
     resized |-> [Width |-> 0, Height |-> 0],
     out |-> [ok |-> FALSE, reader |-> "nil", body |-> <<>>, why |-> "", err |-> <<>>,
              reads |-> 0],
     checked |-> [ok |-> FALSE, params |-> NoCall, err |-> <<>>]]

\* the capacity of a backing array that append allocates for n elements: at
\* least n, how much more is up to the runtime (one spare element stands for
\* any spare room); nothing is allocated for 0
FreshCaps(n) == IF n = 0 THEN {0} ELSE {n, n + 1}

\* cap(allowedOrigins) after the package initialisation: that of the literal
\* when nothing was appended
InitCaps(b, list) ==
    IF b = "libsDirect" /\ Len(list) > 1 THEN FreshCaps(Len(list)) ELSE {Len(list)}

Goroutines == 1..MaxGoroutines

\* sync.Once{}
NewOnce == [done |-> FALSE, m |-> 0]

\* a goroutine that has not called GetAppEnv: what it holds is nil
NoCallYet ==
    [at |-> "out", got |-> [addr |-> 0, cfg |-> NoAppEnv, stale |-> FALSE, epoch |-> 0]]

----------------------------------------------------------------------------
(* The state machine *)

Init ==
    /\ build \in Builds
    /\ env \in IF build = "libsDirect" THEN LibsEnvSamples ELSE EnvSamples
    /\ appEnv = NoAppEnv
    /\ allowedOrigins \in
          CASE build = "helpers" -> {<<>>}
            [] build = "main"    -> {HardCodedOrigins, LibsInit(env.ALLOWED_ORIGINS)}
            [] build = "legacy"  -> {LibsInit(env.ALLOWED_ORIGINS)}
            [] build = "libsDirect"    -> {LibsInit(env.ALLOWED_ORIGINS)}
            [] build = "helpersDirect" -> {<<>>}
    /\ exited = FALSE
    /\ pc = "idle"
    /\ req = EmptyReq
    /\ resp = NoResp
    /\ optLog = <<>>
    /\ fetchLog = <<>>
    /\ allowedCap \in InitCaps(build, allowedOrigins)
    /\ held = NoSlice
    /\ pending = NoCall
    /\ remote = NoRemote
    /\ ret = NoRet
    /\ once = NewOnce
    /\ calls = [g \in Goroutines |-> NoCallYet]
    /\ builds = <<>>
    /\ resets = 0

\* the invocation answered without calling Optimize
AnswerDirect(r, response) ==
    /\ pc' = "done"
    /\ req' = r
    /\ resp' = response
    /\ optLog' = <<>>
    /\ fetchLog' = <<>>
    /\ remote' = NoRemote

\* the invocation called Optimize once and answered
AnswerAfter(r, o, response) ==
    /\ pc' = "done"
    /\ req' = r
    /\ resp' = response
    /\ optLog' = <<o>>
    /\ fetchLog' = o.fetched

\* one invocation of the handler of main.go
InvokeMain ==
    /\ build = "main" /\ pc = "idle" /\ ~exited
    /\ ~GetAppEnvFatal(appEnv, env)
    /\ appEnv' = GetAppEnv(appEnv, env)
    /\ \E r \in Requests :
          \E pre \in {handlerMainParse(appEnv', r)} :
              IF ~pre.call THEN AnswerDirect(r, pre.resp)
              ELSE \E net \in NetsFor(pre.params.Url) :
                      \E o \in {Optimize(allowedOrigins, pre.params, net)} :
                          AnswerAfter(r, o, handlerMainRespond(o.result)) /\ remote' = net
    /\ UNCHANGED <<build, env, allowedOrigins, exited, allowedCap, held, pending, ret,
                   once, calls, builds, resets>>

\* one invocation of the handler of the helpers build
InvokeHelpers ==
    /\ build = "helpers" /\ pc = "idle" /\ ~exited
    /\ ~GetAppEnvFatal(appEnv, env)
    /\ appEnv' = GetAppEnv(appEnv, env)
    /\ \E r \in Requests :
          \E reqHeaders \in GetHeaders(r.headers) :
             \E pre \in {handlerHelpersParse(appEnv', r, reqHeaders)} :
                 IF ~pre.call THEN AnswerDirect(r, pre.resp)
                 ELSE \E net \in NetsFor(pre.params.Url) :
                         \E o \in {OptimizeValidated(pre.params, net)} :
                             AnswerAfter(r, o, handlerHelpersRespond(o.result)) /\ remote' = net
    /\ UNCHANGED <<build, env, allowedOrigins, exited, allowedCap, held, pending, ret,
                   once, calls, builds, resets>>

\* one invocation of the legacy handler
InvokeLegacy ==
    /\ build = "legacy" /\ pc = "idle" /\ ~exited
    /\ \E r \in LegacyRequests :
          \E pre \in {handlerLegacyParse(r)} :
              IF ~pre.call THEN AnswerDirect(r, pre.resp)
              ELSE \E net \in NetsFor(pre.params.Url) :
                      \E o \in {Optimize(allowedOrigins, pre.params, net)} :
                          AnswerAfter(r, o, handlerLegacyRespond(o.result)) /\ remote' = net
    /\ UNCHANGED <<build, env, appEnv, allowedOrigins, exited, allowedCap, held, pending, ret,
                   once, calls, builds, resets>>

\* the first GetAppEnv call of a process without SECRET_KEY: log.Fatal
FatalNoSecret ==
    /\ build \in {"main", "helpers", "helpersDirect"} /\ pc = "idle" /\ ~exited
    /\ GetAppEnvFatal(appEnv, env)
    /\ exited' = TRUE
    /\ UNCHANGED <<build, env, appEnv, allowedOrigins, pc, req, resp, optLog, fetchLog,
                   allowedCap, held, pending, remote, ret,
                   once, calls, builds, resets>>

\* what the direct calls of the allow-list functions leave alone
AllowListFrame ==
    UNCHANGED <<build, env, appEnv, exited, pc, req, resp, optLog, fetchLog, pending, remote,
                   once, calls, builds, resets>>

\* GetAllowedOrigins returning the package slice itself
GetAllowedOriginsNoCopy ==
    /\ build = "libsDirect" /\ pc = "idle"
    /\ held' = [has |-> TRUE, elems |-> allowedOrigins, cap |-> allowedCap, shared |-> TRUE,
                fromGet |-> TRUE, given |-> FALSE]
    /\ ret' = [NoRet EXCEPT !.fn = "GetAllowedOrigins", !.before = allowedOrigins]
    /\ UNCHANGED <<allowedOrigins, allowedCap>>
    /\ AllowListFrame

\* GetAllowedOrigins(): append([]string{}, allowedOrigins...), a new backing
\* array unless there is nothing to copy
GetAllowedOrigins ==
    /\ build = "libsDirect" /\ pc = "idle"
    /\ \E c \in FreshCaps(Len(allowedOrigins)) :
          held' = [has |-> TRUE, elems |-> allowedOrigins, cap |-> c, shared |-> FALSE,
                   fromGet |-> TRUE, given |-> FALSE]
    /\ ret' = [NoRet EXCEPT !.fn = "GetAllowedOrigins", !.before = allowedOrigins]
    /\ UNCHANGED <<allowedOrigins, allowedCap>>
    /\ AllowListFrame

\* SetAllowedOrigins(origins): the package variable takes the caller's slice
\* itself, header and backing array; the caller passes a slice it wrote or the
\* one it holds
SetAllowedOrigins ==
    /\ build = "libsDirect" /\ pc = "idle"
    /\ \/ \E origins \in SetSamples :
             /\ allowedOrigins' = origins
             /\ allowedCap' = Len(origins)
             /\ held' = [has |-> TRUE, elems |-> origins, cap |-> Len(origins),
                         shared |-> TRUE, fromGet |-> FALSE, given |-> TRUE]
             /\ ret' = [NoRet EXCEPT !.fn = "SetAllowedOrigins", !.list = origins,
                                     !.before = allowedOrigins]
       \/ /\ held.has
          /\ allowedOrigins' = held.elems
          /\ allowedCap' = held.cap
          /\ held' = [held EXCEPT !.shared = TRUE, !.given = TRUE]
          /\ ret' = [NoRet EXCEPT !.fn = "SetAllowedOrigins", !.list = held.elems,
                                  !.before = allowedOrigins]
    /\ AllowListFrame

\* AddAllowedOrigin without its slices.Contains test
AddAllowedOriginUnchecked(list, origin) ==
    IF origin # <<>> THEN Append(list, origin) ELSE list

\* the list AddAllowedOrigin leaves behind
AddAllowedOriginValue(list, origin) ==
    IF origin # <<>> /\ ~Contains(list, origin) THEN Append(list, origin) ELSE list

\* AddAllowedOrigin(origin): append writes into the backing array when it has
\* room, which the caller's slice sees if it shares the array and is longer,
\* and moves the list to a new array otherwise
AddAllowedOrigin ==
    /\ build = "libsDirect" /\ pc = "idle"
    /\ Len(allowedOrigins) < MaxListLen
    /\ \E origin \in OriginSamples :
          LET n == Len(allowedOrigins)
          IN  /\ allowedOrigins' = AddAllowedOriginValue(allowedOrigins, origin)
              /\ ret' = [NoRet EXCEPT !.fn = "AddAllowedOrigin", !.str = origin,
                                      !.before = allowedOrigins]
              /\ IF allowedOrigins' = allowedOrigins
                 THEN UNCHANGED <<allowedCap, held>>
                 ELSE IF n < allowedCap
                 THEN /\ allowedCap' = allowedCap
                      /\ held' = IF held.shared /\ Len(held.elems) > n
                                 THEN [held EXCEPT !.elems[n + 1] = origin]
                                 ELSE held
                 ELSE /\ allowedCap' \in FreshCaps(n + 1)
                      /\ held' = [held EXCEPT !.shared = FALSE]
    /\ AllowListFrame

\* the caller overwrites an element of the slice it holds
OverwriteHeld ==
    /\ build = "libsDirect" /\ pc = "idle" /\ held.has
    /\ \E i \in 1..Len(held.elems) :
          /\ held' = [held EXCEPT !.elems[i] = Scribble]
          /\ allowedOrigins' = IF held.shared /\ i <= Len(allowedOrigins)
                               THEN [allowedOrigins EXCEPT ![i] = Scribble]
                               ELSE allowedOrigins
          /\ ret' = [NoRet EXCEPT !.fn = "overwrite", !.idx = i, !.before = allowedOrigins]
    /\ UNCHANGED allowedCap
    /\ AllowListFrame

\* the caller appends to the slice it holds
AppendHeld ==
    /\ build = "libsDirect" /\ pc = "idle" /\ held.has
    /\ Len(held.elems) < MaxListLen
    /\ LET n == Len(held.elems)
       IN  IF n < held.cap
           THEN /\ held' = [held EXCEPT !.elems = Append(held.elems, Scribble)]
                /\ allowedOrigins' = IF held.shared /\ Len(allowedOrigins) > n
                                     THEN [allowedOrigins EXCEPT ![n + 1] = Scribble]
                                     ELSE allowedOrigins
           ELSE /\ \E c \in FreshCaps(n + 1) :
                      held' = [held EXCEPT !.elems = Append(held.elems, Scribble),
                                           !.cap = c, !.shared = FALSE]
                /\ UNCHANGED allowedOrigins
    /\ ret' = [NoRet EXCEPT !.fn = "append", !.idx = Len(held.elems) + 1,
                            !.before = allowedOrigins]
    /\ UNCHANGED allowedCap
    /\ AllowListFrame

\* the parameters of a direct Optimize call
DirectParams(u) == ParamsOptimize(u, 1, 1, LegacyDefaultQuality)

\* Optimize of the package under direct calls
OptimizeOf(b, list, params, net) ==
    IF b = "libsDirect" THEN Optimize(list, params, net) ELSE OptimizeValidated(params, net)

\* what the remote server may do on the fetch of a direct call; the calls
\* that try the allow-list meet a server that is down, one that answers 404
\* and one that serves an image
DirectNets(b) ==
    IF b = "libsDirect"
    THEN {NetDown,
          [NetGood EXCEPT !.status = 404, !.decodeOK = TRUE, !.encodeOK = TRUE, !.img = <<82>>],
          [NetGood EXCEPT !.decodeOK = TRUE, !.encodeOK = TRUE, !.img = <<82>>]}
    ELSE NetOutcomes

\* Optimize returned
Returned(o) ==
    /\ pc' = "returned"
    /\ optLog' = <<o>>

\* a direct call of Optimize up to the point where it waits for the remote
\* server: it returns at once when it fails before the request goes out
OptimizeStart ==
    /\ build \in {"libsDirect", "helpersDirect"} /\ pc = "idle" /\ ~exited
    /\ build = "helpersDirect" => ~GetAppEnvFatal(appEnv, env)
    /\ appEnv' = IF build = "helpersDirect" THEN GetAppEnv(appEnv, env) ELSE appEnv
    /\ \E u \in OriginUrlSamples :
          \E o \in {OptimizeOf(build, allowedOrigins, DirectParams(u), NetDown)} :
              /\ pending' = DirectParams(u)
              /\ ret' = [NoRet EXCEPT !.fn = "Optimize", !.str = u]
              /\ IF Dialable(UrlParse(u)) /\ o.stage = "fetch"
                 THEN /\ pc' = "fetching"
                      /\ fetchLog' = o.fetched
                      /\ UNCHANGED optLog
                 ELSE /\ Returned(o)
                      /\ fetchLog' = o.fetched
    /\ UNCHANGED <<build, env, allowedOrigins, exited, req, resp, allowedCap, held, remote,
                   once, calls, builds, resets>>

\* the remote server answers: an error ends the call, a response is handed on
ResponseArrives ==
    /\ pc = "fetching"
    /\ \E net \in DirectNets(build) :
          /\ remote' = net
          /\ IF net.netErr
             THEN Returned(OptimizeOf(build, allowedOrigins, pending, net))
             ELSE pc' = "reading" /\ UNCHANGED optLog
    /\ UNCHANGED <<build, env, appEnv, allowedOrigins, exited, req, resp, fetchLog,
                   allowedCap, held, pending, ret,
                   once, calls, builds, resets>>

\* the rest of Optimize once the body can be read
BodyArrives ==
    /\ pc = "reading"
    /\ Returned(OptimizeOf(build, allowedOrigins, pending, remote))
    /\ UNCHANGED <<build, env, appEnv, allowedOrigins, exited, req, resp, fetchLog,
                   allowedCap, held, pending, remote, ret,
                   once, calls, builds, resets>>

\* the deadline of context.WithTimeout passes: client.Do returns an error, or
\* the read of the body that is under way fails
FetchTimeout ==
    /\ build = "helpersDirect"
    /\ \E cut \in IF pc = "fetching"
                   THEN {NetDown}
                   ELSE {[remote EXCEPT !.readErr = TRUE, !.decodeOK = FALSE],
                         [remote EXCEPT !.decodeOK = FALSE]} :
          /\ pc \in {"fetching", "reading"}
          /\ remote' = cut
          /\ Returned(OptimizeValidatedFrom(pending, fetchLog, cut))
    /\ UNCHANGED <<build, env, appEnv, allowedOrigins, exited, req, resp, fetchLog,
                   allowedCap, held, pending, ret,
                   once, calls, builds, resets>>

\* a direct call of helpers.IsAllowedOrigin
IsAllowedOriginCall ==
    /\ build = "helpersDirect" /\ pc = "idle" /\ ~exited
    /\ ~GetAppEnvFatal(appEnv, env)
    /\ appEnv' = GetAppEnv(appEnv, env)
    /\ \E u \in OriginUrlSamples :
          ret' = [NoRet EXCEPT !.fn = "IsAllowedOrigin", !.str = u,
                               !.flag = IsAllowedOrigin(appEnv', u)]
    /\ UNCHANGED <<build, env, allowedOrigins, exited, pc, req, resp, optLog, fetchLog,
                   allowedCap, held, pending, remote,
                   once, calls, builds, resets>>

\* a direct call of validateImageFile
ValidateImageFileCall ==
    /\ build = "helpersDirect" /\ pc = "idle" /\ ~exited
    /\ \E net \in ValidateSamples :
          ret' = [NoRet EXCEPT !.fn = "validateImageFile", !.net = net,
                               !.out = validateImageFile(net)]
    /\ UNCHANGED <<build, env, appEnv, allowedOrigins, exited, pc, req, resp, optLog, fetchLog,
                   allowedCap, held, pending, remote,
                   once, calls, builds, resets>>

\* a direct call of validateParams of main.go
ValidateParamsCall ==
    /\ build = "helpersDirect" /\ pc = "idle" /\ ~exited
    /\ ~GetAppEnvFatal(appEnv, env)
    /\ appEnv' = GetAppEnv(appEnv, env)
    /\ \E params \in ParamSamples :
          ret' = [NoRet EXCEPT !.fn = "validateParams", !.params = params,
                               !.checked = validateParams(appEnv', params)]
    /\ UNCHANGED <<build, env, allowedOrigins, exited, pc, req, resp, optLog, fetchLog,
                   allowedCap, held, pending, remote,
                   once, calls, builds, resets>>

\* a direct call of isImageFileSignature
IsImageFileSignatureCall ==
    /\ build = "helpersDirect" /\ pc = "idle" /\ ~exited
    /\ \E data \in SignatureSamples :
          ret' = [NoRet EXCEPT !.fn = "isImageFileSignature", !.data = data,
                               !.flag = isImageFileSignature(data)]
    /\ UNCHANGED <<build, env, appEnv, allowedOrigins, exited, pc, req, resp, optLog, fetchLog,
                   allowedCap, held, pending, remote,
                   once, calls, builds, resets>>

\* a float64 quotient a / b of two dimensions, kept as the pair <<a, b>>
Quotient(a, b) == <<a, b>>

\* s < t for two such quotients with positive divisors
QuotientLess(s, t) == s[1] * t[2] < t[1] * s[2]

\* math.Min
MathMin(s, t) == IF QuotientLess(t, s) THEN t ELSE s

\* math.Max in the place of math.Min
scaleOfLargerQuotient(params, originalWidth, originalHeight) ==
    CASE params.Width > 0 /\ params.Height = 0 -> Quotient(params.Width, originalWidth)
      [] params.Height > 0 /\ params.Width = 0 -> Quotient(params.Height, originalHeight)
      [] params.Width > 0 /\ params.Height > 0 ->
            IF QuotientLess(Quotient(params.Width, originalWidth),
                            Quotient(params.Height, originalHeight))
            THEN Quotient(params.Height, originalHeight)
            ELSE Quotient(params.Width, originalWidth)
      [] OTHER -> Quotient(1, 1)

\* the switch of Optimize that chooses the scale; 1.0 when no case applies
scale(params, originalWidth, originalHeight) ==
    CASE params.Width > 0 /\ params.Height = 0 -> Quotient(params.Width, originalWidth)
      [] params.Height > 0 /\ params.Width = 0 -> Quotient(params.Height, originalHeight)
      [] params.Width > 0 /\ params.Height > 0 ->
            MathMin(Quotient(params.Width, originalWidth),
                    Quotient(params.Height, originalHeight))
      [] OTHER -> Quotient(1, 1)

\* a length multiplied by the scale and rounded to an integer; a product that
\* falls exactly between two integers may come out of the float64 arithmetic
\* on either side
Rounded(length, s) ==
    LET down == (length * s[1]) \div s[2]
        rest == 2 * ((length * s[1]) % s[2])
    IN  IF rest < s[2] THEN {down}
        ELSE IF rest > s[2] THEN {down + 1}
        ELSE {down, down + 1}

\* image.Resize(scale, nil): both axes by the one scale
Resize(size, s) ==
    [Width : Rounded(size.Width, s), Height : Rounded(size.Height, s)]

\* the sizes of the decoded image
SizeSamples == [Width : {1, 2, 3, 5}, Height : {1, 2, 3, 5}]

\* the sizes asked for
BoxSamples == [Url : {<<"a">>}, Width : {-1, 0, 1, 2, 3, 4}, Height : {0, 1, 2, 3, 4},
               Quality : {1}]

\* the part of Optimize from the decoded image to the resized one
OptimizeResize ==
    /\ build = "helpersDirect" /\ pc = "idle" /\ ~exited
    /\ \E params \in BoxSamples, size \in SizeSamples :
          \E s \in {scale(params, size.Width, size.Height)} :
             \E image \in Resize(size, s) :
                ret' = [NoRet EXCEPT !.fn = "Resize", !.params = params, !.size = size,
                                     !.scale = s, !.resized = image]
    /\ UNCHANGED <<build, env, appEnv, allowedOrigins, exited, pc, req, resp, optLog, fetchLog,
                   allowedCap, held, pending, remote,
                   once, calls, builds, resets>>

\* a direct call of isImageContentType
IsImageContentTypeCall ==
    /\ build = "helpersDirect" /\ pc = "idle" /\ ~exited
    /\ \E contentType \in HeaderValueSamples :
          ret' = [NoRet EXCEPT !.fn = "isImageContentType", !.str = contentType,
                               !.flag = isImageContentType(contentType)]
    /\ UNCHANGED <<build, env, appEnv, allowedOrigins, exited, pc, req, resp, optLog, fetchLog,
                   allowedCap, held, pending, remote,
                   once, calls, builds, resets>>

----------------------------------------------------------------------------
(* GetAppEnv step by step, on several goroutines *)

\* what the steps of GetAppEnv, os.Setenv and ResetAppEnvForTesting leave alone
OnceFrame ==
    UNCHANGED <<build, allowedOrigins, pc, req, resp, optLog, fetchLog, allowedCap, held,
                pending, remote, ret>>

\* the done flag read as always 0
onceDoneNever(o) == FALSE

\* o.done.Load() != 0
onceDone(o) == o.done

\* the mutex taken whoever holds it
mutexFreeAlways(o) == TRUE

\* o.m can be locked
mutexFree(o) == o.m = 0

\* the environments a test sets up with its os.Setenv calls: that of the
\* start, one with every variable changed, one without SECRET_KEY
SetenvSamples ==
    {[ALLOWED_ORIGINS |-> <<>>, SECRET_KEY |-> "k", MAX_WIDTH |-> <<"2">>,
      MAX_HEIGHT |-> <<>>, FETCH_TIMEOUT |-> <<>>],
     [ALLOWED_ORIGINS |-> <<"a">>, SECRET_KEY |-> "z", MAX_WIDTH |-> <<"3">>,
      MAX_HEIGHT |-> <<"3">>, FETCH_TIMEOUT |-> <<"3">>],
     [ALLOWED_ORIGINS |-> <<>>, SECRET_KEY |-> "", MAX_WIDTH |-> <<"2">>,
      MAX_HEIGHT |-> <<>>, FETCH_TIMEOUT |-> <<>>]}

\* the os.Setenv calls of a test, at any moment
Setenv ==
    /\ ~exited
    /\ \E e \in SetenvSamples \ {env} : env' = e
    /\ UNCHANGED <<appEnv, exited, once, calls, builds, resets>>
    /\ OnceFrame

\* once.Do, the first load of done: a call that finds it set goes straight
\* to the return statement
GetAppEnvEnter(g) ==
    /\ ~exited /\ calls[g].at \in {"out", "back"}
    /\ calls' = [calls EXCEPT ![g].at = IF onceDone(once) THEN "return" ELSE "lock"]
    /\ UNCHANGED <<env, appEnv, exited, once, builds, resets>>
    /\ OnceFrame

\* doSlow: o.m.Lock() and the second load of done
GetAppEnvLock(g) ==
    /\ ~exited /\ calls[g].at = "lock" /\ mutexFree(once)
    /\ once' = [once EXCEPT !.m = g]
    /\ calls' = [calls EXCEPT ![g].at = IF onceDone(once) THEN "unlock" ELSE "f"]
    /\ UNCHANGED <<env, appEnv, exited, builds, resets>>
    /\ OnceFrame

\* the function given to once.Do: log.Fatal without a SECRET_KEY, else the
\* AppEnv built from the environment and stored in appEnv
GetAppEnvBuild(g) ==
    /\ ~exited /\ calls[g].at = "f"
    /\ IF env.SECRET_KEY = ""
       THEN /\ exited' = TRUE
            /\ UNCHANGED <<appEnv, calls, builds>>
       ELSE /\ appEnv' = BuildAppEnv(env)
            /\ builds' = Append(builds, env)
            /\ calls' = [calls EXCEPT ![g].at = "built"]
            /\ UNCHANGED exited
    /\ UNCHANGED <<env, once, resets>>
    /\ OnceFrame

\* doSlow: the deferred o.done.Store(1)
GetAppEnvDone(g) ==
    /\ ~exited /\ calls[g].at = "built"
    /\ once' = [once EXCEPT !.done = TRUE]
    /\ calls' = [calls EXCEPT ![g].at = "unlock"]
    /\ UNCHANGED <<env, appEnv, exited, builds, resets>>
    /\ OnceFrame

\* doSlow: the deferred o.m.Unlock()
GetAppEnvUnlock(g) ==
    /\ ~exited /\ calls[g].at = "unlock"
    /\ once' = [once EXCEPT !.m = 0]
    /\ calls' = [calls EXCEPT ![g].at = "return"]
    /\ UNCHANGED <<env, appEnv, exited, builds, resets>>
    /\ OnceFrame

\* return appEnv: the pointer read (the number of the build stands for the
\* address, 0 for nil), whether the environment had changed since that build,
\* and the number of resets so far
GetAppEnvReturn(g) ==
    /\ ~exited /\ calls[g].at = "return"
    /\ calls' = [calls EXCEPT ![g] =
                    [at |-> "back",
                     got |-> [addr |-> IF appEnv.set THEN Len(builds) ELSE 0, cfg |-> appEnv,
                              stale |-> builds # <<>> /\ env # builds[Len(builds)],
                              epoch |-> resets]]]
    /\ UNCHANGED <<env, appEnv, exited, once, builds, resets>>
    /\ OnceFrame

\* ResetAppEnvForTesting, called by a test between calls of GetAppEnv
ResetAppEnvForTesting ==
    /\ ~exited /\ resets < MaxResets
    /\ \A g \in Goroutines : calls[g].at \in {"out", "back"}
    /\ appEnv' = NoAppEnv
    /\ once' = NewOnce
    /\ resets' = resets + 1
    /\ UNCHANGED <<env, exited, calls, builds>>
    /\ OnceFrame

----------------------------------------------------------------------------

Next ==
    \/ InvokeMain
    \/ InvokeHelpers
    \/ InvokeLegacy
    \/ FatalNoSecret
    \/ GetAllowedOrigins
    \/ SetAllowedOrigins
    \/ AddAllowedOrigin
    \/ OverwriteHeld
    \/ AppendHeld
    \/ OptimizeStart
    \/ ResponseArrives
    \/ BodyArrives
    \/ FetchTimeout
    \/ IsAllowedOriginCall
    \/ ValidateImageFileCall
    \/ ValidateParamsCall
    \/ IsImageFileSignatureCall
    \/ IsImageContentTypeCall

Spec == Init /\ [][Next]_vars

\* the steps of the direct Optimize calls, where a call can be left waiting
LiveNext ==
    \/ OptimizeStart
    \/ ResponseArrives
    \/ BodyArrives
    \/ FetchTimeout

\* The direct calls under the one progress the code guarantees: the deadline
\* of a context passes.  Nothing obliges the remote server to answer or to
\* finish the body, so ResponseArrives and BodyArrives carry no fairness.
LiveSpec == Init /\ [][LiveNext]_vars /\ WF_vars(FetchTimeout)

\* The choice of the scale and the resize on their own: every size of the
\* decoded image with every size asked for.
ResizeInit == Init /\ build = "helpersDirect"

ResizeSpec == ResizeInit /\ [][OptimizeResize]_vars

\* GetAppEnv called from several goroutines while a test changes the
\* environment and resets the singleton
OnceInit == Init /\ build = "helpersDirect" /\ env \in SetenvSamples

OnceNext ==
    \/ Setenv
    \/ \E g \in Goroutines : GetAppEnvEnter(g)
    \/ \E g \in Goroutines : GetAppEnvLock(g)
    \/ \E g \in Goroutines : GetAppEnvBuild(g)
    \/ \E g \in Goroutines : GetAppEnvDone(g)
    \/ \E g \in Goroutines : GetAppEnvUnlock(g)
    \/ \E g \in Goroutines : GetAppEnvReturn(g)
    \/ ResetAppEnvForTesting

OnceSpec == OnceInit /\ [][OnceNext]_vars

----------------------------------------------------------------------------
(* Vocabulary of the properties *)

Done == pc = "done"

\* the request carries the configured secret under the header name the build reads
Authenticated ==
    CASE build = "main" -> <<"secret-auth-key", env.SECRET_KEY>> \in req.headers
      [] build = "helpers" ->
            /\ \E p \in req.headers : HeaderLower(p[1]) = "imgop-key"
            /\ \A p \in req.headers : HeaderLower(p[1]) = "imgop-key" => p[2] = env.SECRET_KEY
      [] OTHER -> TRUE

\* the authentication header is absent or no copy of it carries the secret
SecretMismatch ==
    CASE build = "main" -> <<"secret-auth-key", env.SECRET_KEY>> \notin req.headers
      [] build = "helpers" ->
            \A p \in req.headers : HeaderLower(p[1]) = "imgop-key" => p[2] # env.SECRET_KEY
      [] OTHER -> FALSE

\* the url parameter is there and (helpers build) its escapes are well formed
UrlGiven ==
    /\ req.url.present
    /\ req.url.value # <<>>
    /\ (build = "helpers" => EscapesOK(req.url.value))

\* the URL text the build works on
ProcessedUrl ==
    IF build = "helpers" THEN QueryUnescape(req.url.value).val ELSE req.url.value

\* the allow-list the build consults
AllowList == IF build = "helpers" THEN appEnv.ALLOWED_ORIGINS ELSE allowedOrigins

HostInAllowList ==
    LET u == UrlParse(ProcessedUrl)
    IN  u.ok /\ \E i \in 1..Len(AllowList) : AllowList[i] = u.Host

\* the URL names a host the build's allow-list holds and can be fetched
UrlAllowed == UrlGiven /\ HostInAllowList /\ Dialable(UrlParse(ProcessedUrl))

\* the URL names a host, and the build's allow-list does not hold it
UrlForeign ==
    /\ UrlGiven
    /\ UrlParse(ProcessedUrl).ok
    /\ UrlParse(ProcessedUrl).Host # <<>>
    /\ ~HostInAllowList

\* an optional sign followed by decimal digits
IsDecimal(str) ==
    LET body == IF str # <<>> /\ str[1] \in {"+", "-"} THEN Tail(str) ELSE str
    IN  body # <<>> /\ \A i \in 1..Len(body) : body[i] \in {Digits[k] : k \in 1..10}

IntegerIn(p, lo, hi) == p.present /\ IsDecimal(p.value) /\ Atoi(p.value).val \in lo..hi

ZeroOrAbsent(p) == ~p.present \/ p.value = <<"0">>

ConfiguredMaxWidth == EnvPositive(env.MAX_WIDTH, DefaultMaxDim)

ConfiguredMaxHeight == EnvPositive(env.MAX_HEIGHT, DefaultMaxDim)

ValidDimensions ==
    /\ IntegerIn(req.w, 1, ConfiguredMaxWidth)
    /\ IntegerIn(req.h, 1, ConfiguredMaxHeight)

ValidQuality == IntegerIn(req.q, 1, 100)

HasRespHeader(name) == \E p \in resp.Headers : p[1] = name

RespHeader(name) == (CHOOSE p \in resp.Headers : p[1] = name)[2]

RECURSIVE SkipBlanks(_, _)
SkipBlanks(text, i) ==
    IF i <= Len(text) /\ text[i] = " " THEN SkipBlanks(text, i + 1) ELSE i

RECURSIVE StringEnd(_, _)
\* the position of the quote that closes a JSON string whose content starts at
\* i; 0 when the string is not closed
StringEnd(text, i) ==
    IF i > Len(text) THEN 0
    ELSE IF text[i] = "\\" THEN StringEnd(text, i + 2)
    ELSE IF text[i] = "\"" THEN i
    ELSE StringEnd(text, i + 1)

RECURSIVE JsonUnescape(_)
JsonUnescape(text) ==
    IF text = <<>> THEN <<>>
    ELSE IF Head(text) = "\\" /\ Len(text) >= 2
    THEN <<text[2]>> \o JsonUnescape(SubSeq(text, 3, Len(text)))
    ELSE <<Head(text)>> \o JsonUnescape(Tail(text))

\* reads text as a JSON object with one string member: [ok, key, value]
ParseJsonMember(text) ==
    LET bad == [ok |-> FALSE, key |-> <<>>, value |-> <<>>]
        k1  == SkipBlanks(text, 2)
        e1  == StringEnd(text, k1 + 1)
        c   == SkipBlanks(text, e1 + 1)
        k2  == SkipBlanks(text, c + 1)
        e2  == StringEnd(text, k2 + 1)
        z   == SkipBlanks(text, e2 + 1)
    IN  IF Len(text) < 2 \/ text[1] # "{" THEN bad
        ELSE IF k1 > Len(text) \/ text[k1] # "\"" \/ e1 = 0 THEN bad
        ELSE IF c > Len(text) \/ text[c] # ":" THEN bad
        ELSE IF k2 > Len(text) \/ text[k2] # "\"" \/ e2 = 0 THEN bad
        ELSE IF z # Len(text) \/ text[z] # "}" THEN bad
        ELSE [ok    |-> TRUE,
              key   |-> JsonUnescape(SubSeq(text, k1 + 1, e1 - 1)),
              value |-> JsonUnescape(SubSeq(text, k2 + 1, e2 - 1))]

\* the body is a JSON object whose only member is "error"
IsErrorJson(text) == ParseJsonMember(text).ok /\ ParseJsonMember(text).key = <<"error">>

\* the body is the JSON error object carrying msg
IsErrorJsonWith(text, msg) == IsErrorJson(text) /\ ParseJsonMember(text).value = msg

\* the seconds of the max-age directive of a Cache-Control value, -1 without one
MaxAgeOf(cc) ==
    LET i == IndexOf(cc, "max-age", 1)
    IN  IF i = 0 \/ i + 1 > Len(cc) \/ cc[i + 1] # "=" THEN -1
        ELSE LET d == DigitPrefix(SubSeq(cc, i + 2, Len(cc)))
             IN  IF d = <<>> THEN -1 ELSE DigitsValue(d, 0)

B64Index(c) == (CHOOSE i \in 1..64 : B64Alphabet[i] = c) - 1

IsB64Char(c) == \E i \in 1..64 : B64Alphabet[i] = c

\* the text is standard padded base64
IsBase64Std(text) ==
    /\ Len(text) % 4 = 0
    /\ \A i \in 1..Len(text) :
          \/ IsB64Char(text[i])
          \/ (text[i] = "=" /\ i >= Len(text) - 1 /\ (i = Len(text) - 1 => text[Len(text)] = "="))

RECURSIVE Base64StdDecode(_)
\* the bytes a standard base64 text stands for
Base64StdDecode(text) ==
    IF text = <<>> THEN <<>>
    ELSE LET a == B64Index(text[1])
             b == B64Index(text[2])
         IN  IF text[3] = "=" THEN <<a * 4 + b \div 16>>
             ELSE LET c == B64Index(text[3])
                  IN  IF text[4] = "="
                      THEN <<a * 4 + b \div 16, (b % 16) * 16 + c \div 4>>
                      ELSE <<a * 4 + b \div 16, (b % 16) * 16 + c \div 4,
                             (c % 4) * 64 + B64Index(text[4])>>
                           \o Base64StdDecode(SubSeq(text, 5, Len(text)))

\* the query keys in the order the handler of main.go reads them
MainKeys == <<"w", "h", "q", "url">>

MainParam(key) ==
    CASE key = "w" -> req.w [] key = "h" -> req.h [] key = "q" -> req.q [] OTHER -> req.url

\* the key is missing, or (w, h, q) present without being a decimal integer
Offends(key) ==
    \/ ~MainParam(key).present
    \/ (key # "url" /\ ~IsDecimal(MainParam(key).value))

FirstOffending == CHOOSE i \in 1..4 : Offends(MainKeys[i]) /\ \A j \in 1..(i - 1) : ~Offends(MainKeys[j])

OffenceText(key) ==
    IF ~MainParam(key).present THEN <<"missing ", key, " parameter">>
    ELSE <<"invalid integer value for ", key, " parameter">>

----------------------------------------------------------------------------
(* The claims *)

\* C1: a request whose URL host is not in the allow-list never causes an HTTP
\* GET: Optimize of the libs package returns before the fetch, and the helpers
\* handler answers before Optimize is called.
C1_NoFetchOutsideAllowList ==
    (Done /\ ~HostInAllowList) =>
        /\ fetchLog = <<>>
        /\ \A i \in 1..Len(optLog) : optLog[i].result = <<>>
        /\ (build = "helpers" => optLog = <<>>)

\* C1 witness: the main build handed Optimize a dialable URL of a host outside
\* the allow-list, and Optimize returned at the origin check.
C1_Witness ==
    /\ Done /\ build = "main" /\ ~HostInAllowList
    /\ optLog # <<>> /\ optLog[1].stage = "origin"
    /\ Dialable(UrlParse(req.url.value))

\* C2: an authenticated request with valid parameters and a URL host outside
\* the allow-list is never answered 200 but with a 400 or 422 JSON error.
C2_ForeignHostNotOK ==
    (Done /\ Authenticated /\ UrlForeign /\ ValidDimensions /\ ValidQuality) =>
        /\ resp.StatusCode \in {StatusBadRequest, StatusUnprocessableEntity}
        /\ IsErrorJson(resp.Body)

\* C3: whenever Optimize returns the empty result the handler answers with a
\* status other than 200, a JSON error and a short cache time; every 200
\* response carries a non-empty image.
C3_EmptyResultIsError ==
    (Done /\ optLog # <<>> /\ optLog[1].result = <<>>) =>
        /\ resp.StatusCode # StatusOK
        /\ IsErrorJson(resp.Body)
        /\ HasRespHeader("Cache-Control")
        /\ MaxAgeOf(RespHeader("Cache-Control")) \in 0..(SuccessCacheSeconds - 1)

\* C4: when the authentication header is absent or differs from SECRET_KEY the
\* handler answers 403 "Forbidden, secret key is incorrect" whatever the query
\* parameters are, before any parsing, origin check or fetch.
C4_SecretMismatchForbidden ==
    (Done /\ build \in {"main", "helpers"} /\ SecretMismatch) =>
        /\ resp.StatusCode = StatusForbidden
        /\ IsErrorJsonWith(resp.Body, <<"Forbidden, secret key is incorrect">>)
        /\ optLog = <<>>
        /\ fetchLog = <<>>

\* C4 witness: a request without the secret that also lacks w, which would be
\* a 422 had the parameters been looked at first, was answered 403.
C4_Witness ==
    /\ Done /\ build = "main" /\ SecretMismatch
    /\ ~req.w.present
    /\ resp.StatusCode = StatusForbidden

\* C5: for an authenticated request with otherwise valid parameters every
\* quality outside 1..100 is answered 422 with an error naming quality and the
\* range 1 to 100, and the optimizer is not called.
C5_QualityOutOfRangeRejected ==
    (/\ Done /\ build \in {"main", "helpers"} /\ Authenticated
     /\ UrlAllowed /\ ValidDimensions
     /\ req.q.present /\ IsDecimal(req.q.value) /\ Atoi(req.q.value).val \notin 1..100) =>
        /\ resp.StatusCode = StatusUnprocessableEntity
        /\ IsErrorJsonWith(resp.Body, <<"quality must be between ", "1", " and ", "100">>)
        /\ optLog = <<>>

\* C6: an authenticated request with an allow-listed URL and a valid quality
\* whose w and h are each absent or zero is not rejected: it reaches the
\* optimizer with Width = 0 and Height = 0.
C6_NoDimensionsReachOptimizer ==
    (/\ Done /\ Authenticated /\ UrlAllowed /\ ValidQuality
     /\ ZeroOrAbsent(req.w) /\ ZeroOrAbsent(req.h)) =>
        /\ optLog # <<>>
        /\ optLog[1].params.Width = 0
        /\ optLog[1].params.Height = 0

C8_AbsentQualityDefaults80 ==
    (/\ Done /\ Authenticated /\ UrlAllowed /\ ValidDimensions /\ ~req.q.present) =>
        /\ optLog # <<>>
        /\ optLog[1].params.Quality = 80

\* C9: every 200 response has IsBase64Encoded set, Content-Type image/webp, a
\* Cache-Control with max-age=31536000, and a body that is the standard base64
\* text of exactly the bytes Optimize returned.
C9_SuccessResponseShape ==
    (Done /\ resp.StatusCode = StatusOK) =>
        /\ resp.IsBase64Encoded
        /\ HasRespHeader("Content-Type")
        /\ RespHeader("Content-Type") = <<"image/webp">>
        /\ HasRespHeader("Cache-Control")
        /\ MaxAgeOf(RespHeader("Cache-Control")) = 31536000
        /\ optLog # <<>>
        /\ IsBase64Std(resp.Body)
        /\ Base64StdDecode(resp.Body) = optLog[1].result

\* C9 witness: a 200 response whose body encodes a non-empty image.
C9_Witness ==
    /\ Done /\ resp.StatusCode = StatusOK
    /\ optLog # <<>> /\ optLog[1].result # <<>>
    /\ resp.Body # <<>>

\* C10: every response with a status other than 200 has Content-Type
\* application/json, a JSON body whose only key is error, IsBase64Encoded
\* false, and a Cache-Control max-age of 60 seconds for a 403 and of 259200
\* seconds for every other status.
C10_ErrorResponseShape ==
    (Done /\ resp.StatusCode # StatusOK) =>
        /\ HasRespHeader("Content-Type")
        /\ RespHeader("Content-Type") = <<"application/json">>
        /\ IsErrorJson(resp.Body)
        /\ ~resp.IsBase64Encoded
        /\ HasRespHeader("Cache-Control")
        /\ MaxAgeOf(RespHeader("Cache-Control")) =
              (IF resp.StatusCode = StatusForbidden THEN 60 ELSE 259200)

----------------------------------------------------------------------------
(* The allow-list of the libs package *)

\* the comma-separated entries of an ALLOWED_ORIGINS value, each trimmed
EnvEntries(str) ==
    IF str = <<>> THEN <<>>
    ELSE [i \in 1..Len(Split(str, ",")) |-> TrimSpace(Split(str, ",")[i])]

\* the non-empty entries, as a set
EnvNames(str) == {EnvEntries(str)[i] : i \in 1..Len(EnvEntries(str))} \ {<<>>}

\* where an entry stands first
FirstAt(entries, x) ==
    CHOOSE i \in 1..Len(entries) : entries[i] = x /\ \A j \in 1..(i - 1) : entries[j] # x

NoRepeats(list) == \A i, j \in 1..Len(list) : i # j => list[i] # list[j]

\* no libs function was called yet: the allow-list is the one init built
AfterInit == build \in {"legacy", "libsDirect"} /\ ret.fn = ""

\* C12: after the initialisation of the libs package the allow-list is the
\* default entry followed by the distinct, trimmed, non-empty entries of
\* ALLOWED_ORIGINS in their order of first appearance, and its length is 1 plus
\* the number of distinct such entries other than the default.
C12_InitAllowList ==
    AfterInit =>
        LET str == env.ALLOWED_ORIGINS
            l   == allowedOrigins
        IN  /\ Len(l) >= 1 /\ l[1] = DefaultOrigin
            /\ NoRepeats(l)
            /\ {l[i] : i \in 1..Len(l)} = {DefaultOrigin} \cup EnvNames(str)
            /\ \A i, j \in 2..Len(l) :
                  i < j => FirstAt(EnvEntries(str), l[i]) < FirstAt(EnvEntries(str), l[j])
            /\ Len(l) = 1 + Cardinality(EnvNames(str) \ {DefaultOrigin})

\* C12 witness: init read a value with a padded entry and a repeat of the
\* default, and built the two-entry list.
C12_Witness ==
    /\ AfterInit /\ build = "libsDirect"
    /\ env.ALLOWED_ORIGINS = <<" ", "a", " ", ",", "g">>
    /\ allowedOrigins = <<DefaultOrigin, <<"a">>>>

\* the state right after a direct call of the named function
Called(fn) == build \in {"libsDirect", "helpersDirect"} /\ ret.fn = fn

Occurrences(list, x) == Cardinality({i \in 1..Len(list) : list[i] = x})

\* C14: AddAllowedOrigin(o) leaves the allow-list unchanged when o is empty or
\* already present; otherwise it appends o once at the end and keeps the
\* earlier entries in order; a second call with the same argument changes
\* nothing.
C14_AddAllowedOrigin ==
    Called("AddAllowedOrigin") =>
        LET before == ret.before
            o      == ret.str
            after  == allowedOrigins
        IN  /\ (o = <<>> \/ Occurrences(before, o) > 0) => after = before
            /\ (o # <<>> /\ Occurrences(before, o) = 0) =>
                  /\ Len(after) = Len(before) + 1
                  /\ after[Len(after)] = o
                  /\ SubSeq(after, 1, Len(before)) = before
                  /\ Occurrences(after, o) = 1
            /\ AddAllowedOriginValue(after, o) = after

\* C14 witness: a new origin was appended behind at least one earlier entry.
C14_Witness ==
    /\ Called("AddAllowedOrigin")
    /\ ret.str = <<"x">>
    /\ Len(ret.before) >= 1
    /\ allowedOrigins = Append(ret.before, <<"x">>)

\* the caller holds a slice that GetAllowedOrigins returned and that it has
\* not handed to SetAllowedOrigins since
HoldsReturned == build = "libsDirect" /\ held.has /\ held.fromGet /\ ~held.given

----------------------------------------------------------------------------
(* The origin check *)

\* the host component, port included, of each URL tried on the origin check
SampleHost(u) ==
    CASE u = <<"s", ":", "/", "/", "a">>                -> <<"a">>
      [] u = <<"s", ":", "/", "/", "g">>                -> <<"g">>
      [] u = <<"s", ":", "/", "/", "x", ".", "a">>      -> <<"x", ".", "a">>
      [] u = <<"s", ":", "/", "/", "a", ":", "8">>      -> <<"a", ":", "8">>
      [] u = <<"s", ":", "/", "/", "a", "@", "g">>      -> <<"g">>
      [] u = <<"s", ":", "/", "/", "g", "/", "a">>      -> <<"g">>
      [] OTHER                                          -> <<>>

\* Optimize of the libs package got past its origin check
PassedOriginCheck ==
    \/ pc \in {"fetching", "reading"}
    \/ optLog # <<>> /\ optLog[1].stage \notin {"parse", "origin"}

\* C11: the origin check accepts a URL if and only if its parsed host, port
\* included, is string-equal to an entry of the allow-list: in Optimize of the
\* libs package (called by a handler or directly), in helpers.IsAllowedOrigin,
\* and hence for every URL the helpers handler passes on.  A subdomain or
\* parent domain of an entry, an entry with a port appended and an entry that
\* stands only in the userinfo or the path are rejected.
C11_OriginCheckIsExactMatch ==
    /\ (build \in {"main", "legacy"} /\ Done /\ optLog # <<>>) =>
          LET u == UrlParse(optLog[1].params.Url)
          IN  PassedOriginCheck <=> (u.ok /\ Occurrences(allowedOrigins, u.Host) > 0)
    /\ (build = "libsDirect" /\ Called("Optimize")) =>
          /\ UrlParse(pending.Url).ok /\ UrlParse(pending.Url).Host = SampleHost(pending.Url)
          /\ PassedOriginCheck <=> Occurrences(allowedOrigins, SampleHost(pending.Url)) > 0
    /\ Called("IsAllowedOrigin") =>
          /\ UrlParse(ret.str).ok /\ UrlParse(ret.str).Host = SampleHost(ret.str)
          /\ ret.flag <=> Occurrences(appEnv.ALLOWED_ORIGINS, SampleHost(ret.str)) > 0
    /\ (build = "helpers" /\ Done /\ optLog # <<>>) =>
          LET u == UrlParse(optLog[1].params.Url)
          IN  u.ok /\ Occurrences(appEnv.ALLOWED_ORIGINS, u.Host) > 0

\* C11 witness: with a listed, IsAllowedOrigin turned down the subdomain x.a.
C11_Witness ==
    /\ Called("IsAllowedOrigin")
    /\ ret.str = <<"s", ":", "/", "/", "x", ".", "a">>
    /\ Occurrences(appEnv.ALLOWED_ORIGINS, <<"a">>) > 0
    /\ ~ret.flag

\* C13: the list GetAppEnv().ALLOWED_ORIGINS that IsAllowedOrigin consults
\* holds only trimmed, non-empty entries, no entry twice, and the fixed default
\* entry, whatever the value of ALLOWED_ORIGINS.
C13_AppEnvOriginsClean ==
    appEnv.set =>
        LET l == appEnv.ALLOWED_ORIGINS
        IN  /\ \A i \in 1..Len(l) : l[i] # <<>> /\ TrimSpace(l[i]) = l[i]
            /\ NoRepeats(l)
            /\ Occurrences(l, DefaultOrigin) > 0

----------------------------------------------------------------------------
(* The fetch and its validation *)

\* the content types tried that name an image
ImageTypeSamples == {<<"i", "m", "a", "g", "e", "/", "j">>}

\* the peeks tried that begin with a known signature: JPEG in 4 bytes, WebP in
\* 12, PNG in 5 and in 12
SignedPeeks ==
    {<<255, 216, 255, 224>>,
     <<82, 73, 70, 70, 0, 0, 0, 0, 87, 69, 66, 80>>,
     <<137, 80, 78, 71, 13>>,
     <<137, 80, 78, 71, 13, 10, 26, 10, 0, 0, 0, 13>>}

\* the bytes the first Read delivered
Peeked(net) == SubSeq(net.body, 1, net.n)

C18_BodyReattached ==
    (Called("validateImageFile") /\ ret.out.ok) => ret.out.body = ret.net.body

\* C18 witness: a 13-byte PNG whose first Read delivered 5 bytes came back whole.
C18_Witness ==
    /\ Called("validateImageFile") /\ ret.out.ok
    /\ Len(ret.net.body) > PeekSize
    /\ ret.net.n = 5
    /\ ret.out.body = ret.net.body

\* the body begins with one of the signatures tried
StartsSigned(body) ==
    \E p \in SignedPeeks : Len(p) <= Len(body) /\ SubSeq(body, 1, Len(p)) = p

\* an Optimize call returned after it handed the body to the decoder
DecoderReached == optLog # <<>> /\ optLog[1].stage \in {"decode", "encode", "ok"}

\* the request of the Optimize call went out on the network
RequestSent == optLog # <<>> /\ fetchLog # <<>>

\* C17: in Optimize the decoder is invoked only after the response passed the
\* status-200 check, the content-type check and the magic-number check; a body
\* that does not begin with a known signature never reaches the decoder and
\* gives the empty result.
C17_DecodeOnlyAfterChecks ==
    /\ DecoderReached =>
          /\ remote.status = StatusOK
          /\ remote.ctype \in ImageTypeSamples
          /\ StartsSigned(remote.body)
    /\ (RequestSent /\ ~remote.netErr /\ ~StartsSigned(remote.body)) =>
          optLog[1].result = <<>>

\* C19: Optimize issues at most one HTTP GET per invocation; when the attempt
\* ends in a network error, a timeout or a status other than 200, Optimize
\* returns the empty result and neither validation nor decode is attempted.
C19_SingleFetchNoRetry ==
    optLog # <<>> =>
        /\ Len(fetchLog) <= 1
        /\ (RequestSent /\ (remote.netErr \/ remote.status # StatusOK)) =>
              /\ optLog[1].result = <<>>
              /\ optLog[1].stage \in {"fetch", "status"}

\* C20: every invocation of Optimize eventually returns, also when the remote
\* server never answers or never finishes sending the body.
C20_OptimizeReturns == (pc \in {"fetching", "reading"}) ~> (pc = "returned")

----------------------------------------------------------------------------
(* URLs without a host *)

\* C27: IsAllowedOrigin returns false for every URL string whose parsed host
\* is empty, whatever the value of ALLOWED_ORIGINS.
C27_EmptyHostNotAllowed ==
    (Called("IsAllowedOrigin") /\ SampleHost(ret.str) = <<>>) => ~ret.flag

----------------------------------------------------------------------------
(* The split of the body into reads *)

\* the response with the first Read filling the peek buffer as far as the
\* body reaches
ReadInFull(net) ==
    [net EXCEPT !.n = IF Len(net.body) < PeekSize THEN Len(net.body) ELSE PeekSize]

\* C28: the verdict of validateImageFile depends only on the Content-Type and
\* the bytes of the body: a first Read that delivers fewer bytes than the
\* buffer takes, although more follow, gives the verdict of a Read in full.
C28_VerdictIgnoresReadSplit ==
    (Called("validateImageFile") /\ ~ret.net.readErr) =>
        ret.out.ok = validateImageFile(ReadInFull(ret.net)).ok

----------------------------------------------------------------------------
(* The allow-list under SetAllowedOrigins *)

\* the caller wrote into the slice it holds after handing it to
\* SetAllowedOrigins
WroteGivenSlice == Called("overwrite") \/ Called("append")

\* C29: after any sequence of package initialisation, AddAllowedOrigin and
\* SetAllowedOrigins calls the allow-list holds no empty entry and no entry
\* twice, and a write into a slice that was passed to SetAllowedOrigins leaves
\* the allow-list as it was.
C29_AllowListClean ==
    build = "libsDirect" =>
        /\ \A i \in 1..Len(allowedOrigins) : allowedOrigins[i] # <<>>
        /\ NoRepeats(allowedOrigins)
        /\ (WroteGivenSlice /\ held.given) => allowedOrigins = ret.before

----------------------------------------------------------------------------
(* The parameter ranges *)

\* C24: validateParams of main.go returns no error exactly when
\* 1 <= Width <= MAX_WIDTH, 1 <= Height <= MAX_HEIGHT and 1 <= Quality <= 100;
\* with several fields out of range the error is that of the first one in the
\* order width, height, quality and states the range of that field; the
\* parameters returned are the parameters given.
C24_ValidateParams ==
    Called("validateParams") =>
        LET p   == ret.params
            v   == ret.checked
            wOK == p.Width \in 1..ConfiguredMaxWidth
            hOK == p.Height \in 1..ConfiguredMaxHeight
            qOK == p.Quality \in 1..100
        IN  /\ v.ok <=> (wOK /\ hOK /\ qOK)
            /\ v.ok => v.err = <<>>
            /\ ~wOK =>
                  v.err = <<"width must be between ", "1", " and ">> \o Itoa(ConfiguredMaxWidth)
            /\ (wOK /\ ~hOK) =>
                  v.err = <<"height must be between ", "1", " and ">> \o Itoa(ConfiguredMaxHeight)
            /\ (wOK /\ hOK /\ ~qOK) =>
                  v.err = <<"quality must be between ", "1", " and ", "100">>
            /\ v.params = p

\* C24 witness: width 3 above MAX_WIDTH 2, height 0 and quality 101 were all
\* out of range and the error named the width.
C24_Witness ==
    /\ Called("validateParams")
    /\ ret.params = [Url |-> <<"a">>, Width |-> 3, Height |-> 0, Quality |-> 101]
    /\ ret.checked.err = <<"width must be between ", "1", " and ", "2">>
    /\ ret.checked.params = ret.params

----------------------------------------------------------------------------
(* The signature table and the content type *)

\* the fixed table: each signature is a set of (offset, bytes) parts that must
\* all be found
SignatureTable ==
    {{<<0, <<255, 216, 255>>>>},                                     \* JPEG
     {<<0, <<137, 80, 78, 71>>>>},                                   \* PNG
     {<<0, <<71, 73, 70, 56>>>>},                                    \* GIF
     {<<0, <<66, 77>>>>},                                            \* BMP
     {<<0, <<73, 73, 42, 0>>>>},                                     \* TIFF, little-endian
     {<<0, <<77, 77, 0, 42>>>>},                                     \* TIFF, big-endian
     {<<0, <<82, 73, 70, 70>>>>, <<8, <<87, 69, 66, 80>>>>},         \* WebP
     {<<4, <<102, 116, 121, 112>>>>, <<8, <<104, 101, 105, 99>>>>},  \* ftyp heic
     {<<4, <<102, 116, 121, 112>>>>, <<8, <<104, 101, 105, 102>>>>}, \* ftyp heif
     {<<4, <<102, 116, 121, 112>>>>, <<8, <<109, 105, 102, 49>>>>}}  \* ftyp mif1

\* the data holds every part of the signature at its offset
HoldsSignature(data, sig) ==
    \A part \in sig :
        /\ Len(data) >= part[1] + Len(part[2])
        /\ SubSeq(data, part[1] + 1, part[1] + Len(part[2])) = part[2]

\* C25: isImageFileSignature rejects every input shorter than 4 bytes and
\* accepts an input of 4 or more bytes exactly when it starts with a signature
\* of the fixed table; RIFF without WEBP and ftyp with another brand are
\* rejected.
C25_SignatureTable ==
    Called("isImageFileSignature") =>
        /\ Len(ret.data) < 4 => ~ret.flag
        /\ Len(ret.data) >= 4 =>
              (ret.flag <=> \E sig \in SignatureTable : HoldsSignature(ret.data, sig))
        /\ ret.data \in {<<82, 73, 70, 70, 0, 0, 0, 0, 87, 65, 86, 69>>,
                         <<0, 0, 0, 0, 102, 116, 121, 112, 105, 115, 111, 109>>} => ~ret.flag

\* C25 witness: the 3-byte JPEG prefix was rejected.
C25_Witness ==
    Called("isImageFileSignature") /\ ret.data = <<255, 216, 255>> /\ ~ret.flag

\* the header value as the claim reads it: trimmed, lower-cased, cut at the
\* first ';'
TypeOfHeader(str) ==
    LET low  == ToLower(TrimSpace(str))
        semi == IndexOf(low, ";", 1)
    IN  IF semi = 0 THEN low ELSE SubSeq(low, 1, semi - 1)

\* C26: isImageContentType returns true exactly when the header value, after
\* trimming surrounding whitespace, lower-casing and cutting everything from
\* the first ';', starts with 'image/'; the empty and the blank value,
\* 'application/image' and 'something/image' give false.
C26_ImageContentType ==
    Called("isImageContentType") =>
        /\ ret.flag <=> HasPrefix(TypeOfHeader(ret.str), <<"i", "m", "a", "g", "e", "/">>)
        /\ ret.str \in {<<>>, <<" ">>,
                        <<"a", "p", "p", "l", "i", "c", "a", "t", "i", "o", "n", "/",
                          "i", "m", "a", "g", "e">>,
                        <<"s", "o", "m", "e", "t", "h", "i", "n", "g", "/",
                          "i", "m", "a", "g", "e">>} => ~ret.flag
        /\ ret.str \in {<<"I", "M", "A", "G", "E", "/", "J">>,
                        <<"\t", "i", "m", "a", "g", "e", "/", "j", "\n">>,
                        <<"i", "m", "a", "g", "e", "/", "j", ";">>} => ret.flag

\* C26 witness: IMAGE/J in capitals was taken for an image type.
C26_Witness ==
    Called("isImageContentType") /\ ret.str = <<"I", "M", "A", "G", "E", "/", "J">> /\ ret.flag

----------------------------------------------------------------------------
(* The scale *)

\* two quotients stand for the same number
SameQuotient(s, t) == s[1] * t[2] = t[1] * s[2]

\* C21: the scale chosen by Optimize is w/W when only the width is asked for,
\* h/H when only the height is asked for, the smaller of w/W and h/H when both
\* are, and 1 when neither is; the one scale is applied to both axes, so a
\* request for one axis brings that axis to exactly the requested value.
C21_ScaleChosen ==
    Called("Resize") =>
        LET w == ret.params.Width
            h == ret.params.Height
            W == ret.size.Width
            H == ret.size.Height
        IN  /\ (w > 0 /\ h = 0) =>
                  /\ SameQuotient(ret.scale, <<w, W>>)
                  /\ W * ret.scale[1] = w * ret.scale[2]
                  /\ ret.resized.Width = w
            /\ (h > 0 /\ w = 0) =>
                  /\ SameQuotient(ret.scale, <<h, H>>)
                  /\ H * ret.scale[1] = h * ret.scale[2]
                  /\ ret.resized.Height = h
            /\ (w > 0 /\ h > 0) =>
                  /\ SameQuotient(ret.scale, <<w, W>>) \/ SameQuotient(ret.scale, <<h, H>>)
                  /\ ~QuotientLess(<<w, W>>, ret.scale)
                  /\ ~QuotientLess(<<h, H>>, ret.scale)
            /\ (w = 0 /\ h = 0) =>
                  /\ SameQuotient(ret.scale, <<1, 1>>)
                  /\ ret.resized = ret.size
            /\ ret.resized.Width \in Rounded(W, ret.scale)
            /\ ret.resized.Height \in Rounded(H, ret.scale)

\* C21 witness: a 3 x 5 image asked for at 2 x 4 was scaled by 2/3, the smaller
\* of 2/3 and 4/5.
C21_Witness ==
    /\ Called("Resize")
    /\ ret.size = [Width |-> 3, Height |-> 5]
    /\ ret.params.Width = 2 /\ ret.params.Height = 4
    /\ ret.scale = <<2, 3>>
    /\ ret.resized = [Width |-> 2, Height |-> 3]

\* C22: when a width and a height of at least 1 are asked for, the resized
\* image is no wider than the width asked for, no higher than the height asked
\* for, and one of the two is exactly what was asked for.
C22_FitsTheBox ==
    (Called("Resize") /\ ret.params.Width >= 1 /\ ret.params.Height >= 1) =>
        /\ ret.resized.Width <= ret.params.Width
        /\ ret.resized.Height <= ret.params.Height
        /\ \/ ret.resized.Width = ret.params.Width
           \/ ret.resized.Height = ret.params.Height

\* C22 witness: a 2 x 5 image asked for at 3 x 3 came out 1 x 3, narrower than
\* the box and exactly as high.
C22_Witness ==
    /\ Called("Resize")
    /\ ret.size = [Width |-> 2, Height |-> 5]
    /\ ret.params.Width = 3 /\ ret.params.Height = 3
    /\ ret.resized = [Width |-> 1, Height |-> 3]

----------------------------------------------------------------------------
(* The configuration singleton *)

\* goroutine g comes back from GetAppEnv in this step
ComesBack(g) == calls[g].at = "return" /\ calls'[g].at = "back"

\* C23: the configuration is read from the environment once.  A call of
\* GetAppEnv returns the object of the latest build, with the values of the
\* environment at the time of that build; once the object exists nothing but
\* ResetAppEnvForTesting replaces it, whatever is done to the environment; a
\* build happens only while there is no object, and reads the environment of
\* that moment.
C23_ReadOnce ==
    [][/\ \A g \in Goroutines :
             ComesBack(g) =>
                /\ builds # <<>>
                /\ calls'[g].got.addr = Len(builds)
                /\ calls'[g].got.cfg = BuildAppEnv(builds[Len(builds)])
       /\ (appEnv.set /\ appEnv' # appEnv) => (appEnv' = NoAppEnv /\ resets' = resets + 1)
       /\ builds' # builds =>
             /\ ~appEnv.set
             /\ builds' = Append(builds, env)
             /\ appEnv' = BuildAppEnv(env)
       /\ resets' # resets => (~appEnv'.set /\ ~once'.done)
      ]_vars

\* C23 witness: after a reset a call returned the second object, which it kept
\* although the environment had changed again since it was built.
C23_Witness ==
    \E g \in Goroutines :
        /\ calls[g].at = "back"
        /\ calls[g].got.addr = 2
        /\ calls[g].got.stale
        /\ calls[g].got.cfg = BuildAppEnv(builds[2])
        /\ builds[1] # builds[2]

\* C30: of the calls of GetAppEnv between two resets, however they are
\* interleaved, one builds the configuration, from one reading of the
\* environment; every call returns a complete configuration, never nil, and all
\* of them the same object.
C30_OneBuildForAll ==
    /\ Len(builds) <= resets + 1
    /\ \A g \in Goroutines :
          calls[g].at = "f" =>
             /\ ~appEnv.set
             /\ \A h \in Goroutines \ {g} : calls[h].at \notin {"f", "built"}
    /\ \A g \in Goroutines :
          calls[g].at = "back" =>
             /\ calls[g].got.addr \in 1..Len(builds)
             /\ calls[g].got.cfg = BuildAppEnv(builds[calls[g].got.addr])
    /\ \A g, h \in Goroutines :
          (calls[g].at = "back" /\ calls[h].at = "back"
              /\ calls[g].got.epoch = calls[h].got.epoch) =>
             calls[g].got = [calls[h].got EXCEPT !.stale = calls[g].got.stale]

\* C30 witness: one goroutine is back with the object while another, which
\* had to take the mutex, still holds it; there was one build.
C30_Witness ==
    \E g, h \in Goroutines :
        /\ calls[g].at = "back" /\ calls[g].got.addr = 1 /\ calls[g].got.epoch = resets
        /\ calls[h].at = "unlock" /\ once.m = h
        /\ Len(builds) = 1

============================================================================
